---- MODULE Spec2Model ----
(***************************************************************************)
(* The compute-resource daemon of dendro:                                  *)
(*   python/dendro/compute_resource/start_compute_resource.py              *)
(* The state is the Daemon object (its loaded apps, its SLURM handlers,    *)
(* its attempted-start set), the control plane's job records, the pub/sub  *)
(* queue and the wall clock.  The specifications share the actions:        *)
(*   SpecLoad   the app registry loader and Daemon.__init__; SpecBoot: the *)
(*              same for any environment                                   *)
(*   Spec       Daemon._handle_jobs called at arbitrary moments, local and *)
(*              AWS Batch jobs and jobs of an unknown processor;           *)
(*              SpecLocal, SpecAws: the same with jobs of one backend      *)
(*   SpecSlurm  ticks and loop iterations over SLURM jobs and handlers     *)
(*   SpecLoop   the event loop Daemon.start; SpecLoopFair: the loop keeps  *)
(*              iterating and time keeps passing; SpecFaults: requests     *)
(*              and calls of an iteration may raise                        *)
(***************************************************************************)
EXTENDS Integers, Sequences, FiniteSets, TLC

VARIABLES
    env,                            \* os.environ: variable -> "set" or None
    startup_requests,               \* history: the control-plane requests of Daemon.__init__, each with its outcome
    pc,                             \* "boot" | "running" | "failed" (startup error) | "dead" (uncaught exception) | "returned"
    compute_resource_apps,          \* the app records the control plane returns (input of the loader)
    apps,                           \* Daemon._apps
    slurm_job_handlers_by_processor,\* Daemon._slurm_job_handlers_by_processor: processor name -> index of the app whose opts it holds
    slurm_handler_jobs,             \* per SLURM handler, the jobIds added and not yet submitted
    attempted_to_start_job_ids,     \* Daemon._attempted_to_start_job_ids
    pubsub_client,                  \* Daemon._pubsub_client: None or "client"
    db,                             \* the control plane's job records, by jobId (jobId = index)
    messages,                       \* the pub/sub client's undrained messages (their types)
    clock,                          \* time.time()
    timer_handle_jobs,              \* local of Daemon.start
    iterated,                       \* history: whether an iteration of the loop of Daemon.start has begun
    passed_over,                    \* history: the jobIds the last tick fetched as pending local jobs and did not pass
                                    \* to _start_job, and those it launched after a tick had not passed them
    overall_timer,                  \* local of Daemon.start
    timeout,                        \* argument of Daemon.start
    launchCount,                    \* history: per jobId, the number of launcher invocations
    raisedJobs,                     \* history: the jobIds whose launcher raised
    statusUpdates,                  \* history: the _set_job_status requests issued
    lastTick,                       \* history: what the _handle_jobs call of the last step did (slurm_added: per handler, the jobIds it received)
    lastIter,                       \* history: what the loop iteration of the last step did
    pubsub_subscription,            \* the pubnubSubscribeKey of the subscription the control plane returns
    config_file,                    \* <dir>/.dendro-compute-resource-node.yaml: whether it exists, and the mapping yaml.safe_load returns
    sdk,                            \* an App, the spec emitted from it, the App parsed back and the spec emitted again
    fs,                             \* the files and directories under the working directory: path -> [is_dir, st_mtime]
    janitor                         \* the process running _cleanup_old_job_working_directories

vars == <<env, startup_requests, pc, compute_resource_apps, apps, slurm_job_handlers_by_processor,
          slurm_handler_jobs, attempted_to_start_job_ids, pubsub_client, db, messages, clock,
          timer_handle_jobs, iterated, passed_over, overall_timer, timeout, launchCount, raisedJobs,
          statusUpdates, lastTick, lastIter, pubsub_subscription, config_file, sdk, fs, janitor>>

\* the state outside the Daemon object
sideVars == <<pubsub_subscription, config_file, sdk, fs, janitor>>

----------------------------------------------------------------------------
(* Bounds of the model *)

\* jobs submitted under Spec (all backends)
MaxJobs == 2
\* jobs submitted under SpecLocal (local jobs only)
MaxLocalJobs == 3
\* jobs submitted under SpecAws (AWS Batch jobs only)
MaxAwsJobs == 3
\* jobs submitted under SpecSlurm (SLURM jobs only)
MaxSlurmJobs == 2
\* jobs a SLURM handler holds before it has to submit them
MaxHandlerJobs == 2
\* jobs submitted under SpecLoop
MaxLoopJobs == 1
\* app records returned by the control plane under SpecLoad
MaxApps == 2
\* processors of one app under SpecLoad
MaxProcessors == 2
\* app records returned by the control plane under SpecBoot
MaxBootApps == 1
\* undrained pub/sub messages
MaxMessages == 1
\* the clock stops advancing here
MaxClock == 4

(* Program constants *)

\* start_compute_resource.py:17
max_simultaneous_local_jobs == 2
\* start_compute_resource.py:104, (60 * 10) / time_scale_factor seconds; the clock's unit is this interval
HandleJobsInterval == 1

None == "None"

\* a dict without keys
EmptyDict == [k \in {} |-> None]

\* dict.get(key, default)
Get(dict, key, default) == IF key \in DOMAIN dict THEN dict[key] ELSE default

\* no bootstrap file in the directory
NoConfigFile == [exists |-> FALSE, content |-> EmptyDict]

\* no App under conversion
NoSdk == [pc |-> "idle"]

\* no janitor process
NoJanitor == [pc |-> "idle", last |-> [done |-> FALSE]]

\* the state outside the Daemon object when only the Daemon is looked at
SideIdle ==
    /\ config_file = NoConfigFile
    /\ sdk = NoSdk
    /\ fs = EmptyDict
    /\ janitor = NoJanitor

\* timestampCreated values of submitted jobs
Timestamps == {1, 2}
\* timeout=None of Daemon.start (run forever), kept apart from the numbers
NoTimeout == 0 - 1
\* timeout arguments of Daemon.start
Timeouts == {NoTimeout, 0, 1}
\* the processors of the apps of Spec, SpecLocal and SpecLoop
LocalProcessor == "p_local"
AwsBatchProcessor == "p_aws"
SlurmProcessor == "p_slurm"
OtherSlurmProcessor == "p_slurm_other"
\* processor names of the app records of SpecLoad
LoadProcessorNames == {"p1", "p2"}
\* the types of pub/sub messages published; the last is one the loop does not interpret
MessageTypes == {"newPendingJob", "jobStatusChaged", "jobStatusChanged"}

Range(s) == {s[i] : i \in DOMAIN s}

SeqsUpTo(S, n) == UNION {[1..k -> S] : k \in 0..n}

Min(a, b) == IF a < b THEN a ELSE b

----------------------------------------------------------------------------
(* The app registry loader *)

\* a DendroComputeResourceApp record: the processors its specUri resolves to,
\* and whether awsBatch / slurm are set (not None)
ComputeResourceAppRecords ==
    [processors : SeqsUpTo(LoadProcessorNames, MaxProcessors),
     awsBatch : BOOLEAN, slurm : BOOLEAN]

\* C5 mutant: the loader without its check
HasBothOptsUnchecked(a) == FALSE

\* the condition under which the loader raises ComputeResourceException
HasBothOpts(a) == a.awsBatch /\ a.slurm

\* App.from_spec_uri with the placement options of the record
AppFromRecord(a) ==
    [processors |-> a.processors,
     aws_batch_job_queue |-> IF a.awsBatch THEN "jobQueue" ELSE None,
     aws_batch_job_definition |-> IF a.awsBatch THEN "jobDefinition" ELSE None,
     slurm_opts |-> IF a.slurm THEN "slurmOpts" ELSE None]

\* C37 mutant: the loader without its else branches; the AWS Batch queue and
\* definition of the record before stay in the loop's variables
RECURSIVE load_apps_loop_stale(_, _)
load_apps_loop_stale(records, ret) ==
    IF records = <<>> THEN [raised |-> FALSE, ret |-> ret]
    ELSE IF HasBothOpts(Head(records)) THEN [raised |-> TRUE, ret |-> <<>>]
    ELSE LET app == AppFromRecord(Head(records))
             stale == IF ret = <<>> \/ Head(records).awsBatch THEN app
                      ELSE [app EXCEPT
                               !.aws_batch_job_queue = ret[Len(ret)].aws_batch_job_queue,
                               !.aws_batch_job_definition = ret[Len(ret)].aws_batch_job_definition]
         IN load_apps_loop_stale(Tail(records), Append(ret, stale))

RECURSIVE load_apps_loop(_, _)
load_apps_loop(records, ret) ==
    IF records = <<>> THEN [raised |-> FALSE, ret |-> ret]
    ELSE IF HasBothOpts(Head(records)) THEN [raised |-> TRUE, ret |-> <<>>]
    ELSE load_apps_loop(Tail(records), Append(ret, AppFromRecord(Head(records))))

_load_apps_from_compute_resource_apps(records) == load_apps_loop(records, <<>>)

\* Daemon.__init__, the handler dictionary: one entry per processor of an app
\* with slurm opts; a later app overwrites the entry of an earlier one
\* a handler for the first processor only of each app with SLURM opts
SlurmHandlersOfFirstProcessor(the_apps) ==
    LET slurmIdx(p) == {i \in DOMAIN the_apps :
                          /\ the_apps[i].slurm_opts # None
                          /\ the_apps[i].processors # <<>>
                          /\ p = the_apps[i].processors[1]}
        names == {p \in UNION {Range(the_apps[i].processors) : i \in DOMAIN the_apps} :
                     slurmIdx(p) # {}}
    IN [p \in names |-> CHOOSE i \in slurmIdx(p) : \A k \in slurmIdx(p) : k <= i]

SlurmHandlersOf(the_apps) ==
    LET slurmIdx(p) == {i \in DOMAIN the_apps :
                          the_apps[i].slurm_opts # None /\ p \in Range(the_apps[i].processors)}
        names == UNION {Range(the_apps[i].processors) :
                          i \in {k \in DOMAIN the_apps : the_apps[k].slurm_opts # None}}
    IN [p \in names |-> CHOOSE i \in slurmIdx(p) : \A k \in slurmIdx(p) : k <= i]

\* Daemon._find_app_with_processor: the index of the first app that has the
\* processor, 0 for None
_find_app_with_processor(the_apps, processor_name) ==
    LET having == {i \in DOMAIN the_apps : processor_name \in Range(the_apps[i].processors)}
    IN IF having = {} THEN 0
       ELSE CHOOSE i \in having : \A k \in having : i <= k

\* C6 mutant: the final return forgotten
get_job_resource_type_no_local(the_apps, processor_name) ==
    LET i == _find_app_with_processor(the_apps, processor_name)
    IN IF i = 0 THEN None
       ELSE IF the_apps[i].aws_batch_job_queue # None THEN "aws_batch"
       ELSE IF the_apps[i].slurm_opts # None THEN "slurm"
       ELSE None

_get_job_resource_type(the_apps, processor_name) ==
    LET i == _find_app_with_processor(the_apps, processor_name)
    IN IF i = 0 THEN None
       ELSE IF the_apps[i].aws_batch_job_queue # None THEN "aws_batch"
       ELSE IF the_apps[i].slurm_opts # None THEN "slurm"
       ELSE "local"

_is_local_job(job) == _get_job_resource_type(apps, job.processorName) = "local"

_is_aws_batch_job(job) == _get_job_resource_type(apps, job.processorName) = "aws_batch"

_is_slurm_job(job) == _get_job_resource_type(apps, job.processorName) = "slurm"

_job_is_pending(job) == job.status = "pending"

EmptyTick ==
    [done |-> FALSE, fetched |-> <<>>, local_jobs_to_start |-> <<>>, start_calls |-> <<>>,
     launched |-> <<>>, raised |-> {}, skipped |-> <<>>, updates |-> <<>>,
     slurm_added |-> <<>>, attempted_before |-> {}, exc |-> FALSE]

EmptyIter ==
    [done |-> FALSE, drained |-> <<>>, elapsed_handle_jobs |-> 0, by_timer |-> FALSE,
     handled |-> FALSE, tick_time |-> 0, do_work |-> EmptyDict, steps |-> <<>>,
     fault |-> "none"]

\* the environment variables Daemon.__init__ reads
EnvKeys == {"COMPUTE_RESOURCE_ID", "COMPUTE_RESOURCE_PRIVATE_KEY", "NODE_ID", "NODE_NAME"}

FullEnv == [k \in EnvKeys |-> "set"]

\* C17 mutant: only COMPUTE_RESOURCE_ID is required
MissingIdentityIdOnly(the_env) == the_env["COMPUTE_RESOURCE_ID"] = None

\* Daemon.__init__, the two tests that raise ValueError
MissingIdentity(the_env) ==
    the_env["COMPUTE_RESOURCE_ID"] = None \/ the_env["COMPUTE_RESOURCE_PRIVATE_KEY"] = None

\* the control-plane requests of Daemon.__init__, in order
StartupRequests == <<"GET apps", "PUT spec", "GET pubsub_subscription">>

\* the request of Daemon.__init__ that raises, if any
StartupFaults == {"none"} \cup Range(StartupRequests)

\* pubnubSubscribeKey values of the subscription
SubscribeKeys == {"mock-subscribe-key", "subscribe-key"}

\* a pub/sub client whatever the key
PubsubClientAlways(pubnub_subscribe_key) == "client"

\* Daemon.__init__: a PubsubClient unless the key is 'mock-subscribe-key'
PubsubClientOf(pubnub_subscribe_key) ==
    IF pubnub_subscribe_key # "mock-subscribe-key" THEN "client" ELSE None

\* the timer starts at the time of the call
TimerStartNow == clock

\* Daemon.start: timer_handle_jobs = 0
TimerStart == 0

\* the requests issued when request number `failing` raises (0: none raises
\* among the first `issued`), each with its outcome
RequestLog(issued, failing) ==
    [k \in 1..issued |-> <<StartupRequests[k], IF k = failing THEN "raised" ELSE "ok">>]

\* Daemon.__init__: the environment, the apps, the handlers, the empty
\* attempted-start set, the spec report, the pub/sub subscription.  An
\* exception anywhere leaves no Daemon
DaemonInit ==
    /\ pc = "boot"
    /\ \E fault \in StartupFaults :
       LET loaded == _load_apps_from_compute_resource_apps(compute_resource_apps)
           failing == IF fault = "none" THEN 0
                      ELSE CHOOSE k \in DOMAIN StartupRequests : StartupRequests[k] = fault
           issued == IF MissingIdentity(env) THEN 0
                     ELSE IF failing = 1 \/ loaded.raised THEN 1
                     ELSE IF failing = 2 THEN 2
                     ELSE 3
           constructed == ~MissingIdentity(env) /\ ~loaded.raised /\ failing = 0
       IN /\ startup_requests' = RequestLog(issued, failing)
          /\ IF constructed
             THEN /\ pc' = "running"
                  /\ apps' = loaded.ret
                  /\ slurm_job_handlers_by_processor' = SlurmHandlersOf(loaded.ret)
                  /\ slurm_handler_jobs' = [p \in DOMAIN SlurmHandlersOf(loaded.ret) |-> <<>>]
                  /\ pubsub_client' = PubsubClientOf(pubsub_subscription)
             ELSE /\ pc' = "failed"
                  /\ UNCHANGED <<apps, slurm_job_handlers_by_processor, slurm_handler_jobs,
                                 pubsub_client>>
    /\ attempted_to_start_job_ids' = {}
    /\ UNCHANGED <<iterated, passed_over>>
    /\ UNCHANGED sideVars
    /\ UNCHANGED <<env, compute_resource_apps, db, messages, clock,
                   timer_handle_jobs, overall_timer, timeout, launchCount,
                   raisedJobs, statusUpdates, lastTick, lastIter>>

\* the state before Daemon() is constructed, but for the environment and the
\* app records
NoDaemon ==
    /\ startup_requests = <<>>
    /\ apps = <<>>
    /\ slurm_job_handlers_by_processor = <<>>
    /\ slurm_handler_jobs = <<>>
    /\ attempted_to_start_job_ids = {}
    /\ pubsub_client = None
    /\ db = <<>>
    /\ messages = <<>>
    /\ clock = HandleJobsInterval + 1
    /\ timer_handle_jobs = TimerStart
    /\ iterated = FALSE
    /\ passed_over = {}
    /\ overall_timer = HandleJobsInterval + 1
    /\ timeout = NoTimeout
    /\ launchCount = <<>>
    /\ raisedJobs = {}
    /\ statusUpdates = {}
    /\ lastTick = EmptyTick
    /\ lastIter = EmptyIter

\* the state when Daemon() is about to be constructed
NotConstructed ==
    /\ pc = "boot"
    /\ NoDaemon

\* the state before Daemon() is constructed, for any list of app records
InitLoad ==
    /\ NotConstructed
    /\ SideIdle
    /\ pubsub_subscription \in SubscribeKeys
    /\ env = FullEnv
    /\ compute_resource_apps \in SeqsUpTo(ComputeResourceAppRecords, MaxApps)

\* the state before Daemon() is constructed, for any environment
InitBoot ==
    /\ NotConstructed
    /\ SideIdle
    /\ pubsub_subscription \in SubscribeKeys
    /\ env \in [EnvKeys -> {None, "set"}]
    /\ compute_resource_apps \in SeqsUpTo(ComputeResourceAppRecords, MaxBootApps)

NextLoad == DaemonInit

SpecLoad == InitLoad /\ [][NextLoad]_vars

SpecBoot == InitBoot /\ [][NextLoad]_vars

----------------------------------------------------------------------------
(* The control plane, as the daemon sees it *)

PrivateKeyOf(job_id) == <<"jobPrivateKey", job_id>>

\* a job as the control plane creates it
NewJob(job_id, processor_name, timestamp_created) ==
    [jobId |-> job_id, jobPrivateKey |-> PrivateKeyOf(job_id),
     processorName |-> processor_name, status |-> "pending",
     timestampCreated |-> timestamp_created]

UnfinishedStatuses == {"pending", "queued", "starting", "running"}

\* GET .../unfinished_jobs: the unfinished jobs, in the order of the records
UnfinishedJobs(the_db) == SelectSeq(the_db, LAMBDA job : job.status \in UnfinishedStatuses)

\* the control plane after PUT .../jobs/{jobId}/status for the jobs of `applied`
ControlPlaneApply(the_db, applied) ==
    [i \in DOMAIN the_db |->
        IF i \in applied THEN [the_db[i] EXCEPT !.status = "failed"] ELSE the_db[i]]

\* a user submits a job
SubmitJob(processor_names, timestamps, max_jobs) ==
    /\ pc = "running"
    /\ Len(db) < max_jobs
    /\ \E p \in processor_names, ts \in timestamps :
          db' = Append(db, NewJob(Len(db) + 1, p, ts))
    /\ launchCount' = Append(launchCount, 0)
    /\ lastTick' = EmptyTick
    /\ lastIter' = EmptyIter
    /\ UNCHANGED <<iterated, passed_over>>
    /\ UNCHANGED sideVars
    /\ UNCHANGED <<env, startup_requests, pc, compute_resource_apps, apps,
                   slurm_job_handlers_by_processor,
                   slurm_handler_jobs, attempted_to_start_job_ids, pubsub_client, messages, clock,
                   timer_handle_jobs, overall_timer, timeout, raisedJobs, statusUpdates>>

\* a job's own process (or another node) reports progress: the code only tells
\* pending from not pending, and finished jobs leave the unfinished list
JobStatusChange ==
    /\ pc = "running"
    /\ \E i \in DOMAIN db :
          \/ /\ db[i].status = "pending"
             /\ db' = [db EXCEPT ![i].status = "running"]
          \/ /\ db[i].status = "queued"
             /\ db' = [db EXCEPT ![i].status = "running"]
          \/ /\ db[i].status = "running"
             /\ db' = [db EXCEPT ![i].status = "completed"]
    /\ lastTick' = EmptyTick
    /\ lastIter' = EmptyIter
    /\ UNCHANGED <<iterated, passed_over>>
    /\ UNCHANGED sideVars
    /\ UNCHANGED <<env, startup_requests, pc, compute_resource_apps, apps,
                   slurm_job_handlers_by_processor,
                   slurm_handler_jobs, attempted_to_start_job_ids, pubsub_client, messages, clock,
                   timer_handle_jobs, overall_timer, timeout, launchCount, raisedJobs,
                   statusUpdates>>

----------------------------------------------------------------------------
(* The dispatcher *)

\* C4 mutant: a sort that is not stable (equal timestamps end up reversed)
RECURSIVE sort_jobs_unstable(_)
sort_jobs_unstable(jobs) ==
    IF jobs = <<>> THEN <<>>
    ELSE LET x == jobs[Len(jobs)]
             rest == sort_jobs_unstable(SubSeq(jobs, 1, Len(jobs) - 1))
             before == SelectSeq(rest, LAMBDA j : j.timestampCreated < x.timestampCreated)
             after == SelectSeq(rest, LAMBDA j : j.timestampCreated >= x.timestampCreated)
         IN before \o <<x>> \o after

\* sorted(jobs, key=timestampCreated): Python's sort is stable; insertion of the
\* last job behind the jobs that are not newer
RECURSIVE _sort_jobs_by_timestamp_created(_)
_sort_jobs_by_timestamp_created(jobs) ==
    IF jobs = <<>> THEN <<>>
    ELSE LET x == jobs[Len(jobs)]
             rest == _sort_jobs_by_timestamp_created(SubSeq(jobs, 1, Len(jobs) - 1))
             before == SelectSeq(rest, LAMBDA j : j.timestampCreated <= x.timestampCreated)
             after == SelectSeq(rest, LAMBDA j : j.timestampCreated > x.timestampCreated)
         IN before \o <<x>> \o after

\* C39 mutant: the admission test counts every local job of the fetch as busy
LocalJobsToStartCountingPending(jobs) ==
    LET local_jobs == SelectSeq(jobs, _is_local_job)
        pending_local_jobs ==
            _sort_jobs_by_timestamp_created(
                SelectSeq(local_jobs, LAMBDA job : job.status = "pending"))
    IN IF Len(local_jobs) < max_simultaneous_local_jobs
       THEN SubSeq(pending_local_jobs, 1,
                   Min(max_simultaneous_local_jobs - Len(local_jobs), Len(pending_local_jobs)))
       ELSE <<>>

\* C34 mutant: the first local jobs of any status are passed to _start_job
LocalJobsToStartAnyStatus(jobs) ==
    LET local_jobs == _sort_jobs_by_timestamp_created(SelectSeq(jobs, _is_local_job))
    IN SubSeq(local_jobs, 1, Min(max_simultaneous_local_jobs, Len(local_jobs)))

\* _handle_jobs, "Local jobs": the jobs passed to _start_job
LocalJobsToStart(jobs) ==
    LET local_jobs == SelectSeq(jobs, _is_local_job)
        num_non_pending_local_jobs ==
            Len(SelectSeq(local_jobs, LAMBDA job : job.status # "pending"))
    IN IF num_non_pending_local_jobs < max_simultaneous_local_jobs
       THEN LET pending_local_jobs ==
                    _sort_jobs_by_timestamp_created(
                        SelectSeq(local_jobs, LAMBDA job : job.status = "pending"))
                num_to_start ==
                    Min(max_simultaneous_local_jobs - num_non_pending_local_jobs,
                        Len(pending_local_jobs))
            IN SubSeq(pending_local_jobs, 1, num_to_start)
       ELSE <<>>

\* C13 mutant: only the pending AWS Batch jobs
AwsBatchJobsPendingOnly(jobs) ==
    SelectSeq(jobs, LAMBDA job : _is_aws_batch_job(job) /\ _job_is_pending(job))

\* _handle_jobs, "AWS Batch jobs"
AwsBatchJobs(jobs) == SelectSeq(jobs, _is_aws_batch_job)

\* C14 mutant: the SLURM jobs of any status
SlurmJobsAnyStatus(jobs) == SelectSeq(jobs, _is_slurm_job)

\* _handle_jobs, "SLURM jobs"
SlurmJobs(jobs) == SelectSeq(jobs, LAMBDA job : _is_slurm_job(job) /\ _job_is_pending(job))

\* C21 mutant: the key of the first job record instead of the job's own
StatusRequestFirstKey(job, status, error) ==
    [jobId |-> job.jobId, jobPrivateKey |-> PrivateKeyOf(1), status |-> status,
     error |-> error]

\* _set_job_status(job_id, job_private_key, status, error) as _start_job calls it
StatusRequest(job, status, error) ==
    [jobId |-> job.jobId, jobPrivateKey |-> job.jobPrivateKey, status |-> status,
     error |-> error]

\* _start_job, the guard on the attempted-start set
AlreadyAttempted(st, job) == job.jobId \in st.attempted

\* the jobId becomes the only member of the attempted-start set
MarkAttemptedForgetting(st, job) == [st EXCEPT !.attempted = {job.jobId}]

\* _start_job, the jobId enters the attempted-start set
MarkAttempted(st, job) == [st EXCEPT !.attempted = @ \cup {job.jobId}]

\* C9 mutant: the launcher's exception is not caught
InvokeLauncherUncaught(st, job, raises) ==
    LET app == _find_app_with_processor(apps, job.processorName)
    IN IF app = 0
       THEN [st EXCEPT !.updates = Append(@, StatusRequest(job, "failed", "Could not find app"))]
       ELSE IF job.jobId \in raises
       THEN [st EXCEPT !.launched = Append(@, job.jobId),
                       !.raised = @ \cup {job.jobId},
                       !.exc = TRUE]
       ELSE [st EXCEPT !.launched = Append(@, job.jobId)]

\* C36 mutant: no test of the app lookup; the launcher is invoked without app
\* and raises
InvokeLauncherNoAppTest(st, job, raises) ==
    LET app == _find_app_with_processor(apps, job.processorName)
    IN IF app = 0 \/ job.jobId \in raises
       THEN [st EXCEPT !.launched = Append(@, job.jobId),
                       !.raised = @ \cup {job.jobId},
                       !.updates = Append(@, StatusRequest(job, "failed", "Failed to start job"))]
       ELSE [st EXCEPT !.launched = Append(@, job.jobId)]

\* C35 mutant: _start_job also reports 'starting' when the launcher returned
InvokeLauncherReportingStart(st, job, raises) ==
    LET app == _find_app_with_processor(apps, job.processorName)
    IN IF app = 0
       THEN [st EXCEPT !.updates = Append(@, StatusRequest(job, "failed", "Could not find app"))]
       ELSE IF job.jobId \in raises
       THEN [st EXCEPT !.launched = Append(@, job.jobId),
                       !.raised = @ \cup {job.jobId},
                       !.updates = Append(@, StatusRequest(job, "failed", "Failed to start job"))]
       ELSE [st EXCEPT !.launched = Append(@, job.jobId),
                       !.updates = Append(@, StatusRequest(job, "starting", ""))]

\* _start_job after the guard: the app lookup, the launcher call and the
\* handling of its exception; the launcher raises for the jobs of `raises`
\* when `st.status_raises`, the _set_job_status request raises in its turn
InvokeLauncher(st, job, raises) ==
    LET app == _find_app_with_processor(apps, job.processorName)
    IN IF app = 0
       THEN IF st.status_raises THEN [st EXCEPT !.exc = TRUE]
            ELSE [st EXCEPT !.updates = Append(@, StatusRequest(job, "failed", "Could not find app"))]
       ELSE IF job.jobId \in raises
       THEN IF st.status_raises
            THEN [st EXCEPT !.launched = Append(@, job.jobId),
                            !.raised = @ \cup {job.jobId},
                            !.exc = TRUE]
            ELSE [st EXCEPT !.launched = Append(@, job.jobId),
                            !.raised = @ \cup {job.jobId},
                            !.updates = Append(@, StatusRequest(job, "failed", "Failed to start job"))]
       ELSE [st EXCEPT !.launched = Append(@, job.jobId)]

\* C1 mutant: no guard on the attempted-start set
start_job_unguarded(st, job, raises) == InvokeLauncher(MarkAttempted(st, job), job, raises)

\* C2 mutant: the jobId is added after the launcher returned, so not when it raised
start_job_mark_after(st, job, raises) ==
    IF AlreadyAttempted(st, job) THEN [st EXCEPT !.skipped = Append(@, job.jobId)]
    ELSE LET after == InvokeLauncher(st, job, raises)
         IN IF job.jobId \in after.raised THEN after ELSE MarkAttempted(after, job)

\* Daemon._start_job
_start_job(st, job, raises) ==
    IF AlreadyAttempted(st, job) THEN [st EXCEPT !.skipped = Append(@, job.jobId)]
    ELSE InvokeLauncher(MarkAttempted(st, job), job, raises)

\* the calls of _start_job of one tick, in order; an exception that leaves
\* _start_job ends the tick
RECURSIVE StartJobs(_, _, _)
StartJobs(calls, st, raises) ==
    IF calls = <<>> \/ st.exc THEN st
    ELSE StartJobs(Tail(calls), _start_job(st, Head(calls), raises), raises)

\* the state of one _handle_jobs call before its first _start_job
TickStart ==
    [attempted |-> attempted_to_start_job_ids, launched |-> <<>>, raised |-> {},
     skipped |-> <<>>, updates |-> <<>>, status_raises |-> FALSE, exc |-> FALSE]

\* what can raise in an iteration: the unfinished-jobs request, the validation
\* of a fetched record, a status request, a handler's do_work
Faults == {"none", "fetch", "validation", "status_request", "do_work"}

\* SlurmJobHandler.add_job: the job joins the handler's jobs
add_job(handler_jobs, processor_name, job) ==
    [handler_jobs EXCEPT ![processor_name] = Append(@, job.jobId)]

\* _handle_jobs, the add_job calls of one tick, in order
RECURSIVE AddJobs(_, _)
AddJobs(slurm_jobs, handler_jobs) ==
    IF slurm_jobs = <<>> THEN handler_jobs
    ELSE AddJobs(Tail(slurm_jobs),
                 add_job(handler_jobs, Head(slurm_jobs).processorName, Head(slurm_jobs)))

\* SlurmJobHandler.do_work of one handler: its jobs are not submitted yet
\* (idle), or are submitted as one batch, or their submission fails
DoWorkOutcomes == {"idle", "submitted", "failed"}

\* no do_work call at all
NoDoWork == [p \in DOMAIN slurm_job_handlers_by_processor |-> "idle"]

\* the outcomes of the do_work calls of one iteration: a handler without jobs
\* has nothing to submit
DoWorkChoices(handler_jobs) ==
    {do_work \in [DOMAIN handler_jobs -> DoWorkOutcomes] :
        \A p \in DOMAIN handler_jobs : handler_jobs[p] = <<>> => do_work[p] = "idle"}

\* do_work is called for the handlers that hold jobs only
DoWorkCallsWhenBusy(handler_jobs) ==
    [p \in DOMAIN handler_jobs |-> IF handler_jobs[p] # <<>> THEN 1 ELSE 0]

\* Daemon.start, the loop over the handlers: the number of do_work calls of
\* each handler in one iteration
DoWorkCalls(handler_jobs) == [p \in DOMAIN handler_jobs |-> 1]

\* the handlers' jobs after do_work of every handler
DoWorkHandlerJobs(handler_jobs, do_work) ==
    [p \in DOMAIN handler_jobs |-> IF do_work[p] = "idle" THEN handler_jobs[p] ELSE <<>>]

\* the control plane after do_work of every handler: submitted jobs are
\* queued, jobs whose submission failed are failed
DoWorkDb(the_db, handler_jobs, do_work) ==
    [i \in DOMAIN the_db |->
        IF \E p \in DOMAIN handler_jobs : do_work[p] = "submitted" /\ i \in Range(handler_jobs[p])
        THEN [the_db[i] EXCEPT !.status = "queued"]
        ELSE IF \E p \in DOMAIN handler_jobs : do_work[p] = "failed" /\ i \in Range(handler_jobs[p])
        THEN [the_db[i] EXCEPT !.status = "failed"]
        ELSE the_db[i]]

\* _handle_jobs, "SLURM jobs": the jobs that reach add_job, those before the
\* first one whose processor has no handler
SlurmJobsToAdd(slurm_jobs) ==
    LET missing == {k \in DOMAIN slurm_jobs :
                       slurm_jobs[k].processorName \notin DOMAIN slurm_job_handlers_by_processor}
        first_missing == IF missing = {} THEN Len(slurm_jobs) + 1
                         ELSE CHOOSE k \in missing : \A m \in missing : k <= m
    IN SubSeq(slurm_jobs, 1, first_missing - 1)

\* Daemon._handle_jobs, followed, when `with_do_work`, by the do_work calls of
\* the loop; `next_pc` is where control goes when they return.  The launcher
\* raises for the jobs of `raises`; the control plane applies the status
\* requests of the jobs of `applied`; `fault` is what raises.  (Every local of
\* the code is bound once, as the only element of a set.)
HandleJobsEffect(next_pc, fault, with_do_work) ==
    /\ fault = "validation" => UnfinishedJobs(db) # <<>>
    /\ fault = "do_work" => (with_do_work /\ DOMAIN slurm_job_handlers_by_processor # {})
    /\ \E jobs \in {IF (fault \in {"fetch", "validation"}) THEN <<>> ELSE UnfinishedJobs(db)} :
       \E local_jobs_to_start \in {LocalJobsToStart(jobs)} :
       \E calls \in {local_jobs_to_start \o AwsBatchJobs(jobs)} :
       \E raises \in SUBSET {calls[k].jobId : k \in DOMAIN calls} :
       \E st \in {StartJobs(calls, [TickStart EXCEPT !.status_raises = (fault = "status_request")],
                            raises)} :
       \E slurm_jobs \in {IF st.exc THEN <<>> ELSE SlurmJobs(jobs)} :
       \E added \in {SlurmJobsToAdd(slurm_jobs)} :
       \E handler_jobs \in {AddJobs(added, slurm_handler_jobs)} :
       \E exc \in {(fault \in {"fetch", "validation"}) \/ st.exc \/ Len(added) < Len(slurm_jobs)} :
       \E dead \in {exc \/ fault = "do_work"} :
       \E do_work \in IF with_do_work /\ ~dead THEN DoWorkChoices(handler_jobs) ELSE {NoDoWork} :
       \E applied \in SUBSET {st.updates[k].jobId : k \in DOMAIN st.updates} :
          /\ fault = "status_request" => st.exc
          /\ \A p \in DOMAIN handler_jobs : Len(handler_jobs[p]) <= MaxHandlerJobs
          /\ attempted_to_start_job_ids' = st.attempted
          /\ passed_over' =
                (passed_over \cap Range(st.launched)) \cup
                ({jobs[k].jobId : k \in {m \in DOMAIN jobs :
                                            _is_local_job(jobs[m]) /\ _job_is_pending(jobs[m])}}
                    \ {local_jobs_to_start[k].jobId : k \in DOMAIN local_jobs_to_start})
          /\ launchCount' = [i \in DOMAIN launchCount |->
                                launchCount[i] + Cardinality({k \in DOMAIN st.launched : st.launched[k] = i})]
          /\ raisedJobs' = raisedJobs \cup st.raised
          /\ statusUpdates' = statusUpdates \cup Range(st.updates)
          /\ slurm_handler_jobs' = DoWorkHandlerJobs(handler_jobs, do_work)
          /\ db' = DoWorkDb(ControlPlaneApply(db, applied), handler_jobs, do_work)
          /\ lastTick' = [done |-> TRUE, fetched |-> jobs,
                          local_jobs_to_start |-> [k \in DOMAIN local_jobs_to_start |-> local_jobs_to_start[k].jobId],
                          start_calls |-> [k \in DOMAIN calls |-> calls[k].jobId],
                          launched |-> st.launched, raised |-> st.raised,
                          skipped |-> st.skipped, updates |-> st.updates,
                          slurm_added |-> [p \in DOMAIN handler_jobs |->
                                              SubSeq(handler_jobs[p],
                                                     Len(slurm_handler_jobs[p]) + 1,
                                                     Len(handler_jobs[p]))],
                          attempted_before |-> attempted_to_start_job_ids,
                          exc |-> exc]
          /\ pc' = IF dead THEN "dead" ELSE next_pc

\* one dispatcher tick
HandleJobs ==
    /\ pc = "running"
    /\ HandleJobsEffect("running", "none", FALSE)
    /\ lastIter' = EmptyIter
    /\ UNCHANGED iterated
    /\ UNCHANGED sideVars
    /\ UNCHANGED <<env, startup_requests, compute_resource_apps, apps,
                   slurm_job_handlers_by_processor,
                   pubsub_client, messages, clock, timer_handle_jobs, overall_timer,
                   timeout>>

\* the app records of the running daemon: a local app, an AWS Batch app, a SLURM
\* app of two processors
StandardApps ==
    << [processors |-> <<LocalProcessor>>, awsBatch |-> FALSE, slurm |-> FALSE],
       [processors |-> <<AwsBatchProcessor>>, awsBatch |-> TRUE, slurm |-> FALSE],
       [processors |-> <<SlurmProcessor, OtherSlurmProcessor>>, awsBatch |-> FALSE, slurm |-> TRUE] >>

\* the state after Daemon() was constructed from StandardApps
Constructed ==
    /\ SideIdle
    /\ pc = "running"
    /\ env = FullEnv
    /\ startup_requests = RequestLog(Len(StartupRequests), 0)
    /\ compute_resource_apps = StandardApps
    /\ apps = _load_apps_from_compute_resource_apps(StandardApps).ret
    /\ slurm_job_handlers_by_processor =
          SlurmHandlersOf(_load_apps_from_compute_resource_apps(StandardApps).ret)
    /\ slurm_handler_jobs = [p \in DOMAIN slurm_job_handlers_by_processor |-> <<>>]
    /\ attempted_to_start_job_ids = {}
    /\ db = <<>>
    /\ messages = <<>>
    /\ clock = HandleJobsInterval + 1
    /\ timer_handle_jobs = TimerStart
    /\ iterated = FALSE
    /\ passed_over = {}
    /\ overall_timer = HandleJobsInterval + 1
    /\ launchCount = <<>>
    /\ raisedJobs = {}
    /\ statusUpdates = {}
    /\ lastTick = EmptyTick
    /\ lastIter = EmptyIter

\* the subscription a constructed daemon with this client was given
Subscribed ==
    pubsub_subscription = IF pubsub_client = None THEN "mock-subscribe-key" ELSE "subscribe-key"

Init ==
    /\ Constructed
    /\ pubsub_client = None
    /\ Subscribed
    /\ timeout = NoTimeout

SubmitAnyJob ==
    SubmitJob({LocalProcessor, AwsBatchProcessor, "nonexistent"}, {1}, MaxJobs)

Next == SubmitAnyJob \/ JobStatusChange \/ HandleJobs

Spec == Init /\ [][Next]_vars

SubmitLocalJob == SubmitJob({LocalProcessor}, Timestamps, MaxLocalJobs)

NextLocal == SubmitLocalJob \/ JobStatusChange \/ HandleJobs

SpecLocal == Init /\ [][NextLocal]_vars

SubmitAwsJob == SubmitJob({AwsBatchProcessor}, {1}, MaxAwsJobs)

NextAws == SubmitAwsJob \/ JobStatusChange \/ HandleJobs

SpecAws == Init /\ [][NextAws]_vars

----------------------------------------------------------------------------
(* The event loop *)

\* C10 mutant: the message type spelled as it should have been
IsTriggerMessageRespelled(msg_type) == msg_type \in {"newPendingJob", "jobStatusChanged"}

\* Daemon.start, the message types that set need_to_handle_jobs
IsTriggerMessage(msg_type) == msg_type \in {"newPendingJob", "jobStatusChaged"}

\* C11 mutant: any drained message sets need_to_handle_jobs
NeedToHandleJobsAnyMessage(by_timer, msgs) == by_timer \/ msgs # <<>>

\* C12 mutant: only messages set need_to_handle_jobs
NeedToHandleJobsNoTimer(by_timer, msgs) == \E k \in DOMAIN msgs : IsTriggerMessage(msgs[k])

\* Daemon.start, need_to_handle_jobs after the messages were looked at
NeedToHandleJobs(by_timer, msgs) ==
    by_timer \/ \E k \in DOMAIN msgs : IsTriggerMessage(msgs[k])

\* C16 mutant: the timeout test without `timeout is not None`
TimedOutWhenNone(overall_elapsed, the_timeout) == overall_elapsed > the_timeout

\* Daemon.start, the test that ends the loop
TimedOut(overall_elapsed, the_timeout) ==
    the_timeout # NoTimeout /\ overall_elapsed > the_timeout

\* one iteration of the while loop of Daemon.start, up to its sleep; `fault`
\* is what raises in it
\* the timeout is tested at the head of the loop body
IterationStepsTimeoutFirst(need_to_handle_jobs, timed_out) ==
    <<"timeout test">>
        \o (IF timed_out THEN <<"return">>
            ELSE <<"take_messages">>
                    \o (IF need_to_handle_jobs THEN <<"_handle_jobs">> ELSE <<>>)
                    \o <<"do_work", "sleep">>)

\* Daemon.start, the statements of the loop body in their order: the messages
\* are taken, _handle_jobs is called if needed, do_work of the handlers, the
\* timeout test, then the return or the sleep
IterationSteps(need_to_handle_jobs, timed_out) ==
    <<"take_messages">>
        \o (IF need_to_handle_jobs THEN <<"_handle_jobs">> ELSE <<>>)
        \o <<"do_work", "timeout test">>
        \o (IF timed_out THEN <<"return">> ELSE <<"sleep">>)

\* the wall-clock time a call of _handle_jobs may take
TickTimes == {0, 1}

\* C32 mutant: the timer is restarted when _handle_jobs has returned
TimerAfterTickEnd(tick_time) == clock + tick_time

\* Daemon.start: timer_handle_jobs = time.time(), before the call of _handle_jobs
TimerAfterTick(tick_time) == clock

LoopIterationWith(fault) ==
    /\ pc = "running"
    /\ LET elapsed_handle_jobs == clock - timer_handle_jobs
           by_timer == elapsed_handle_jobs > HandleJobsInterval
           msgs == IF pubsub_client # None THEN messages ELSE <<>>
           need_to_handle_jobs == NeedToHandleJobs(by_timer, msgs)
       IN \E tick_time \in IF need_to_handle_jobs THEN TickTimes ELSE {0} :
          \E after \in {IF TimedOut(clock + tick_time - overall_timer, timeout)
                        THEN "returned" ELSE "running"} :
          /\ clock + tick_time <= MaxClock
          /\ clock' = clock + tick_time
          /\ messages' = IF pubsub_client # None THEN <<>> ELSE messages
          /\ IF need_to_handle_jobs
             THEN /\ timer_handle_jobs' = TimerAfterTick(tick_time)
                  /\ HandleJobsEffect(after, fault, TRUE)
             ELSE /\ fault \in {"none", "do_work"}
                  /\ fault = "do_work" => DOMAIN slurm_job_handlers_by_processor # {}
                  /\ pc' = IF fault = "do_work" THEN "dead" ELSE after
                  /\ lastTick' = EmptyTick
                  /\ \E do_work \in IF fault = "do_work" THEN {NoDoWork}
                                    ELSE DoWorkChoices(slurm_handler_jobs) :
                        /\ slurm_handler_jobs' = DoWorkHandlerJobs(slurm_handler_jobs, do_work)
                        /\ db' = DoWorkDb(db, slurm_handler_jobs, do_work)
                  /\ UNCHANGED <<timer_handle_jobs, attempted_to_start_job_ids, launchCount,
                                 raisedJobs, statusUpdates, passed_over>>
          /\ lastIter' = [done |-> TRUE, drained |-> msgs,
                          elapsed_handle_jobs |-> elapsed_handle_jobs, by_timer |-> by_timer,
                          handled |-> need_to_handle_jobs,
                          tick_time |-> tick_time,
                          do_work |-> IF pc' = "dead" THEN EmptyDict
                                      ELSE DoWorkCalls(slurm_handler_jobs),
                          steps |-> IF pc' = "dead" THEN <<>>
                                    ELSE IterationSteps(need_to_handle_jobs, after = "returned"),
                          fault |-> fault]
    /\ iterated' = TRUE
    /\ UNCHANGED sideVars
    /\ UNCHANGED <<env, startup_requests, compute_resource_apps, apps,
                   slurm_job_handlers_by_processor,
                   pubsub_client, overall_timer, timeout>>

\* an iteration in which nothing raises
LoopIteration == LoopIterationWith("none")

\* an iteration in which a request or a call may raise
FaultyLoopIteration == \E fault \in Faults : LoopIterationWith(fault)

\* wall-clock time passes (in a sleep, in a request)
TimePasses ==
    /\ pc = "running"
    /\ clock < MaxClock
    /\ clock' = clock + 1
    /\ lastTick' = EmptyTick
    /\ lastIter' = EmptyIter
    /\ UNCHANGED <<iterated, passed_over>>
    /\ UNCHANGED sideVars
    /\ UNCHANGED <<env, startup_requests, pc, compute_resource_apps, apps,
                   slurm_job_handlers_by_processor,
                   slurm_handler_jobs, attempted_to_start_job_ids, pubsub_client, db, messages,
                   timer_handle_jobs, overall_timer, timeout, launchCount, raisedJobs,
                   statusUpdates>>

\* the pub/sub client receives a message
PublishUpTo(max_messages) ==
    /\ pc = "running"
    /\ pubsub_client # None
    /\ Len(messages) < max_messages
    /\ \E t \in MessageTypes : messages' = Append(messages, t)
    /\ lastTick' = EmptyTick
    /\ lastIter' = EmptyIter
    /\ UNCHANGED <<iterated, passed_over>>
    /\ UNCHANGED sideVars
    /\ UNCHANGED <<env, startup_requests, pc, compute_resource_apps, apps,
                   slurm_job_handlers_by_processor,
                   slurm_handler_jobs, attempted_to_start_job_ids, pubsub_client, db, clock,
                   timer_handle_jobs, overall_timer, timeout, launchCount, raisedJobs,
                   statusUpdates>>

Publish == PublishUpTo(MaxMessages)

\* Daemon.start was called on a constructed daemon
InitLoop ==
    /\ Constructed
    /\ pubsub_client \in {None, "client"}
    /\ Subscribed
    /\ timeout \in Timeouts

SubmitLoopJob == SubmitJob({LocalProcessor, AwsBatchProcessor}, {1}, MaxLoopJobs)

NextLoop == LoopIteration \/ TimePasses \/ Publish \/ SubmitLoopJob \/ JobStatusChange

SpecLoop == InitLoop /\ [][NextLoop]_vars

\* Daemon.start without pub/sub client (the mock subscription)
InitLoopNoClient ==
    /\ Constructed
    /\ pubsub_client = None
    /\ Subscribed
    /\ timeout \in Timeouts

NextLoopNoClient == LoopIteration \/ TimePasses \/ SubmitLoopJob \/ JobStatusChange

\* the loop keeps iterating (its sleeps are bounded) and time keeps passing
SpecLoopFair ==
    /\ InitLoopNoClient
    /\ [][NextLoopNoClient]_vars
    /\ WF_vars(LoopIteration)
    /\ WF_vars(TimePasses)

NextFaults == FaultyLoopIteration \/ TimePasses \/ Publish \/ SubmitLoopJob \/ JobStatusChange

SpecFaults == InitLoop /\ [][NextFaults]_vars

\* ticks at arbitrary moments and loop iterations of a daemon without pub/sub
\* client, over SLURM jobs of two processors
SubmitSlurmJob == SubmitJob({SlurmProcessor, OtherSlurmProcessor}, {1}, MaxSlurmJobs)

NextSlurm == SubmitSlurmJob \/ JobStatusChange \/ HandleJobs \/ LoopIteration

SpecSlurm == Init /\ [][NextSlurm]_vars

----------------------------------------------------------------------------
(* Properties *)

KnownProcessor(processor_name) == _find_app_with_processor(apps, processor_name) # 0

\* the jobs this daemon launched that are local and still unfinished
LaunchedUnfinishedLocal ==
    {i \in DOMAIN db : /\ launchCount[i] > 0
                       /\ _is_local_job(db[i])
                       /\ db[i].status \in UnfinishedStatuses}

\* C1: for every jobId the backend launcher is invoked at most once in the
\* daemon's lifetime, whatever ticks happen and whatever statuses they observe
C1_AtMostOneLaunch == \A i \in DOMAIN launchCount : launchCount[i] <= 1

\* a tick observed a job still pending that an earlier tick had launched, and
\* did not launch it again
C1_Witness ==
    /\ lastTick.done
    /\ \E k \in DOMAIN lastTick.fetched :
          /\ lastTick.fetched[k].status = "pending"
          /\ lastTick.fetched[k].jobId \in Range(lastTick.skipped)
          /\ launchCount[lastTick.fetched[k].jobId] = 1

\* C2: a job whose launcher raised is in the attempted-start set, and the
\* launcher is never invoked for it again
C2_NoRetryAfterFailedLaunch ==
    \A i \in raisedJobs : i \in attempted_to_start_job_ids /\ launchCount[i] = 1

\* a job whose launcher had raised was passed to _start_job again by a later
\* tick, which returned at the guard
C2_Witness ==
    /\ lastTick.done
    /\ \E i \in raisedJobs : i \in Range(lastTick.skipped) /\ i \notin lastTick.raised

\* C3: at every instant at most max_simultaneous_local_jobs local jobs that
\* this daemon launched are still unfinished
C3_LocalAdmissionCap == Cardinality(LaunchedUnfinishedLocal) <= max_simultaneous_local_jobs

\* the pending local jobs of the last tick's fetch, as positions of the fetch
FetchedPendingLocal ==
    {k \in DOMAIN lastTick.fetched :
        _is_local_job(lastTick.fetched[k]) /\ lastTick.fetched[k].status = "pending"}

FetchedBusyLocal ==
    {k \in DOMAIN lastTick.fetched :
        _is_local_job(lastTick.fetched[k]) /\ lastTick.fetched[k].status # "pending"}

\* the number of pending local jobs that go before position k: older, or as
\* old and earlier in the fetch
RankInFetch(k) ==
    Cardinality({m \in FetchedPendingLocal :
        \/ lastTick.fetched[m].timestampCreated < lastTick.fetched[k].timestampCreated
        \/ /\ lastTick.fetched[m].timestampCreated = lastTick.fetched[k].timestampCreated
           /\ m < k})

\* C4: the local jobs a tick passes to _start_job are the first
\* (max_simultaneous_local_jobs - numBusyLocal) pending local jobs by
\* ascending timestampCreated, ties in the order of the fetch; none when
\* numBusyLocal is not below the maximum
C4_LocalAdmissionOrder ==
    lastTick.done =>
        LET quota == max_simultaneous_local_jobs - Cardinality(FetchedBusyLocal)
            passed == lastTick.local_jobs_to_start
        IN IF quota <= 0 THEN passed = <<>>
           ELSE /\ Len(passed) = Min(quota, Cardinality(FetchedPendingLocal))
                /\ \A k \in FetchedPendingLocal :
                      RankInFetch(k) < quota =>
                          passed[RankInFetch(k) + 1] = lastTick.fetched[k].jobId

\* a tick with one busy local job and two pending ones as old as each other
\* passed only the one the fetch returned first
C4_Witness ==
    /\ lastTick.done
    /\ Cardinality(FetchedBusyLocal) = 1
    /\ Len(lastTick.local_jobs_to_start) = 1
    /\ \E k, m \in FetchedPendingLocal :
          /\ k < m
          /\ lastTick.fetched[k].timestampCreated = lastTick.fetched[m].timestampCreated
          /\ lastTick.local_jobs_to_start[1] = lastTick.fetched[k].jobId

\* C5: a list of app records in which some record sets both awsBatch and
\* slurm makes the loader raise: construction fails and no app is loaded
C5_BothOptsRejected ==
    (/\ pc # "boot"
     /\ \E i \in DOMAIN compute_resource_apps :
           compute_resource_apps[i].awsBatch /\ compute_resource_apps[i].slurm)
        => (pc = "failed" /\ apps = <<>>)

C5_Witness ==
    /\ pc = "failed"
    /\ startup_requests = <<<<"GET apps", "ok">>>>
    /\ \E i \in DOMAIN compute_resource_apps :
          compute_resource_apps[i].awsBatch /\ compute_resource_apps[i].slurm

BackendsOf(processor_name) ==
    {t \in {"local", "aws_batch", "slurm"} :
        \/ t = "local" /\ _is_local_job([processorName |-> processor_name])
        \/ t = "aws_batch" /\ _is_aws_batch_job([processorName |-> processor_name])
        \/ t = "slurm" /\ _is_slurm_job([processorName |-> processor_name])}

\* C6: no loaded app has both an AWS Batch job queue and SLURM options, and a
\* job of a processor of a loaded app is exactly one of local, aws_batch, slurm
C6_SingleBackend ==
    pc = "running" =>
        /\ \A i \in DOMAIN apps :
              ~(apps[i].aws_batch_job_queue # None /\ apps[i].slurm_opts # None)
        /\ \A p \in LoadProcessorNames :
              KnownProcessor(p) => Cardinality(BackendsOf(p)) = 1

\* a daemon whose apps make one processor local and another one slurm
C6_Witness ==
    /\ pc = "running"
    /\ \E p, q \in LoadProcessorNames : BackendsOf(p) = {"local"} /\ BackendsOf(q) = {"slurm"}

\* the (app, position) places where a processor is declared
ProcessorPlaces ==
    {<<i, k>> : i \in DOMAIN apps, k \in 1..MaxProcessors + 1} \cap
    UNION {{<<i, k>> : k \in DOMAIN apps[i].processors} : i \in DOMAIN apps}

\* C7: a running daemon has no processor name declared twice, in two apps or
\* in one: construction fails on duplicates
C7_UniqueProcessorNames ==
    pc = "running" =>
        \A a, b \in ProcessorPlaces :
            a # b => apps[a[1]].processors[a[2]] # apps[b[1]].processors[b[2]]

\* C8: every unfinished job that a tick fetched and whose processor belongs
\* to no loaded app has been reported failed
C8_UnknownProcessorReportedFailed ==
    lastTick.done =>
        \A k \in DOMAIN lastTick.fetched :
            ~KnownProcessor(lastTick.fetched[k].processorName) =>
                \E u \in statusUpdates :
                    u.jobId = lastTick.fetched[k].jobId /\ u.status = "failed"

\* C9: when the launcher raises for a job, _start_job requests status failed
\* for that job with the job's key and the failure message, the exception
\* does not leave _start_job, and the tick goes on through every other call
C9_LauncherFailureReported ==
    (lastTick.done /\ lastTick.raised # {}) =>
        /\ \A i \in lastTick.raised :
              [jobId |-> i, jobPrivateKey |-> PrivateKeyOf(i), status |-> "failed",
               error |-> "Failed to start job"] \in statusUpdates
        /\ ~lastTick.exc
        /\ pc = "running"
        /\ \A k \in DOMAIN lastTick.start_calls :
              lastTick.start_calls[k] \in Range(lastTick.launched) \cup Range(lastTick.skipped)

\* in one tick the launcher raised for a job and was invoked for the next one
C9_Witness ==
    /\ lastTick.done
    /\ \E k, m \in DOMAIN lastTick.launched :
          /\ k < m
          /\ lastTick.launched[k] \in lastTick.raised
          /\ lastTick.launched[m] \notin lastTick.raised

\* C10: an iteration that drained a newPendingJob or a jobStatusChaged
\* message performed the dispatcher tick
C10_TriggerMessageHandled ==
    (/\ lastIter.done
     /\ \E k \in DOMAIN lastIter.drained :
           lastIter.drained[k] \in {"newPendingJob", "jobStatusChaged"})
        => (lastIter.handled /\ lastTick.done)

\* a jobStatusChaged message caused a tick while the timer had not elapsed
C10_Witness ==
    /\ lastIter.done
    /\ ~lastIter.by_timer
    /\ \E k \in DOMAIN lastIter.drained : lastIter.drained[k] = "jobStatusChaged"
    /\ lastIter.handled
    /\ lastTick.done

\* C11: an iteration that drained only messages of other types than
\* newPendingJob and jobStatusChaged, at most HandleJobsInterval after the last
\* tick, took the messages off the queue and did not call _handle_jobs
C11_OtherMessagesIgnored ==
    (/\ lastIter.done
     /\ lastIter.elapsed_handle_jobs <= HandleJobsInterval
     /\ \A k \in DOMAIN lastIter.drained :
           lastIter.drained[k] \notin {"newPendingJob", "jobStatusChaged"})
        => /\ ~lastIter.handled
           /\ ~lastTick.done
           /\ lastIter.drained # <<>> => messages = <<>>

\* an iteration drained a message of another type and performed no tick
C11_Witness ==
    /\ lastIter.done
    /\ lastIter.drained # <<>>
    /\ \A k \in DOMAIN lastIter.drained : lastIter.drained[k] = "jobStatusChanged"
    /\ ~lastIter.handled
    /\ messages = <<>>

\* the iteration is not the first one: a tick was performed before it
TickedBefore == lastIter.elapsed_handle_jobs < clock - lastIter.tick_time

\* C12 as stated: without messages, a tick is performed at least once in every
\* HandleJobsInterval: a tick that no message caused comes at most
\* HandleJobsInterval after the tick before it
C12_TickWithinEveryInterval ==
    (lastIter.done /\ lastIter.drained = <<>> /\ lastIter.handled /\ TickedBefore)
        => lastIter.elapsed_handle_jobs <= HandleJobsInterval

\* C12, amended: every iteration that begins more than HandleJobsInterval
\* after the last tick performs a tick and restarts the timer, and a tick
\* that no message caused comes more than HandleJobsInterval after the tick
\* before it
C12_TickOnceIntervalExceeded ==
    lastIter.done =>
        /\ lastIter.elapsed_handle_jobs > HandleJobsInterval
              => /\ lastIter.handled
                 /\ lastTick.done
                 /\ timer_handle_jobs = clock - lastIter.tick_time
        /\ (lastIter.drained = <<>> /\ lastIter.handled)
              => lastIter.elapsed_handle_jobs > HandleJobsInterval

\* without any message, a second tick was performed as soon as an iteration
\* found the interval exceeded
C12_Witness ==
    /\ lastIter.done
    /\ lastIter.drained = <<>>
    /\ lastIter.handled
    /\ TickedBefore
    /\ lastIter.elapsed_handle_jobs = HandleJobsInterval + 1

\* the AWS Batch jobs of the last tick's fetch, as positions of the fetch
FetchedAwsBatch ==
    {k \in DOMAIN lastTick.fetched : _is_aws_batch_job(lastTick.fetched[k])}

\* C13: a tick passes every fetched AWS Batch job to _start_job, whatever the
\* job's status and however many they are, and the launcher is invoked for
\* exactly those that were not in the attempted-start set before the tick
C13_AwsBatchAllStarted ==
    lastTick.done =>
        \A k \in FetchedAwsBatch :
            LET i == lastTick.fetched[k].jobId
            IN /\ i \in Range(lastTick.start_calls)
               /\ i \notin lastTick.attempted_before
                     => (i \in Range(lastTick.launched) /\ launchCount[i] = 1)
               /\ i \in lastTick.attempted_before
                     => (i \in Range(lastTick.skipped) /\ i \notin Range(lastTick.launched))

\* one tick launched more AWS Batch jobs than max_simultaneous_local_jobs,
\* one of them not pending
C13_Witness ==
    /\ lastTick.done
    /\ Cardinality(FetchedAwsBatch) > max_simultaneous_local_jobs
    /\ Len(lastTick.launched) > max_simultaneous_local_jobs
    /\ \E k \in FetchedAwsBatch :
          /\ lastTick.fetched[k].status # "pending"
          /\ lastTick.fetched[k].jobId \in Range(lastTick.launched)

\* the SLURM jobs of the last tick's fetch, as positions of the fetch
FetchedSlurm ==
    {k \in DOMAIN lastTick.fetched : _is_slurm_job(lastTick.fetched[k])}

\* C14: a tick passes every fetched pending SLURM job to add_job of the
\* handler registered for the job's processorName and of no other handler,
\* passes no SLURM job that is not pending to any handler, and passes no
\* SLURM job to _start_job or the launcher
C14_SlurmPendingToOwnHandler ==
    lastTick.done =>
        \A k \in FetchedSlurm :
            LET job == lastTick.fetched[k]
            IN /\ job.status = "pending" =>
                     /\ job.processorName \in DOMAIN lastTick.slurm_added
                     /\ \A p \in DOMAIN lastTick.slurm_added :
                           job.jobId \in Range(lastTick.slurm_added[p]) <=> p = job.processorName
               /\ job.status # "pending" =>
                     \A p \in DOMAIN lastTick.slurm_added :
                         job.jobId \notin Range(lastTick.slurm_added[p])
               /\ job.jobId \notin Range(lastTick.start_calls)
               /\ launchCount[job.jobId] = 0

\* a tick fetched a pending job of the second SLURM processor, which its
\* handler received, and a SLURM job that was not pending, which no handler
\* received
C14_Witness ==
    /\ lastTick.done
    /\ \E k, m \in FetchedSlurm :
          /\ lastTick.fetched[k].status = "pending"
          /\ lastTick.fetched[k].processorName = OtherSlurmProcessor
          /\ lastTick.slurm_added[OtherSlurmProcessor] = <<lastTick.fetched[k].jobId>>
          /\ lastTick.slurm_added[SlurmProcessor] = <<>>
          /\ lastTick.fetched[m].status # "pending"

\* the places of a job among the jobs the handlers hold
HandlerPlaces(job_id) ==
    {<<p, k>> : p \in DOMAIN slurm_handler_jobs, k \in 1..MaxHandlerJobs} \cap
    UNION {{<<p, k>> : k \in {n \in DOMAIN slurm_handler_jobs[p] :
                                  slurm_handler_jobs[p][n] = job_id}} :
           p \in DOMAIN slurm_handler_jobs}

\* C15: every pending SLURM job that a tick observed is among the jobs of a
\* handler once the tick's add_job calls are done, no job is held more than
\* once, by one handler or by two, and a handler holds only jobs of its own
\* processor
C15_ExactlyOneCohort ==
    /\ lastTick.done =>
          \A k \in FetchedSlurm :
              lastTick.fetched[k].status = "pending" =>
                  \E p \in DOMAIN lastTick.slurm_added :
                      lastTick.fetched[k].jobId \in Range(lastTick.slurm_added[p])
    /\ \A i \in DOMAIN db : Cardinality(HandlerPlaces(i)) <= 1
    /\ \A p \in DOMAIN slurm_handler_jobs :
          \A k \in DOMAIN slurm_handler_jobs[p] :
              db[slurm_handler_jobs[p][k]].processorName = p

\* C16: Daemon.start returns only when a timeout was given and more than the
\* timeout has elapsed since it was called; with a timeout, and every call of
\* an iteration returning, it does return; an iteration that returns without
\* a tick changes no job record and issues no status request (launched jobs
\* are left as they are)
C16_TimeoutEndsLoop ==
    /\ [](pc = "returned" => (timeout # NoTimeout /\ clock - overall_timer > timeout))
    /\ (timeout # NoTimeout) ~> (pc = "returned")
    /\ [][(pc' = "returned" /\ ~lastTick'.done)
             => (db' = db /\ statusUpdates' = statusUpdates)]_vars

\* Daemon.start returned while a job this daemon launched was still unfinished
C16_Witness ==
    /\ pc = "returned"
    /\ timeout = 1
    /\ \E i \in DOMAIN db : launchCount[i] > 0 /\ db[i].status \in UnfinishedStatuses

\* C17: when COMPUTE_RESOURCE_ID or COMPUTE_RESOURCE_PRIVATE_KEY is not in
\* the environment, constructing the Daemon fails before any control-plane
\* request and no loop starts; when both are set, the construction goes on to
\* its first request whether or not NODE_ID and NODE_NAME are set
C17_MissingIdentityFailsFirst ==
    pc # "boot" =>
        IF env["COMPUTE_RESOURCE_ID"] = None \/ env["COMPUTE_RESOURCE_PRIVATE_KEY"] = None
        THEN pc = "failed" /\ startup_requests = <<>>
        ELSE startup_requests # <<>>

\* the construction failed with only COMPUTE_RESOURCE_PRIVATE_KEY missing
C17_Witness ==
    /\ pc = "failed"
    /\ startup_requests = <<>>
    /\ env = [FullEnv EXCEPT !["COMPUTE_RESOURCE_PRIVATE_KEY"] = None]

\* C20: when the request that reports the spec fails, the daemon still asks
\* for its pub/sub subscription and is constructed
C20_SpecReportFailureNotFatal ==
    <<"PUT spec", "raised">> \in Range(startup_requests)
        => /\ pc = "running"
           /\ <<"GET pubsub_subscription", "ok">> \in Range(startup_requests)

\* C18: an iteration whose unfinished-jobs request failed leaves the daemon
\* in its loop (or returned on its timeout), for the next tick to retry
C18_FetchFailureSurvived ==
    (lastIter.done /\ lastIter.fault = "fetch") => pc \in {"running", "returned"}

\* C19: an iteration in which the validation of a fetched record, a status
\* request or a handler's do_work raised does not end the daemon
C19_TickExceptionSurvived ==
    (lastIter.done /\ lastIter.fault \in {"validation", "status_request", "do_work"})
        => pc # "dead"

\* C21: every status request the dispatcher issued names a job of the control
\* plane and carries the jobPrivateKey of that job's record, never none and
\* never the key of another job
C21_StatusUpdateCarriesOwnKey ==
    \A u \in statusUpdates :
        /\ u.jobId \in DOMAIN db
        /\ u.jobPrivateKey # None
        /\ u.jobPrivateKey = db[u.jobId].jobPrivateKey
        /\ \A i \in DOMAIN db : i # u.jobId => u.jobPrivateKey # db[i].jobPrivateKey

\* with two jobs fetched, a tick reported the failure of the second one
C21_Witness ==
    /\ lastTick.done
    /\ Len(lastTick.fetched) > 1
    /\ \E k \in DOMAIN lastTick.updates :
          /\ lastTick.updates[k].jobId # 1
          /\ lastTick.updates[k] \in statusUpdates

----------------------------------------------------------------------------
(* The app spec: get_spec and from_spec of App and of the classes of
   AppProcessor.py.  A spec is a dict: a function whose domain is the set of
   keys it has *)

\* inputs of a processor, and parameters of a processor
MaxSdkItems == 1

\* pydantic_core.PydanticUndefined: the default of a parameter without one
PydanticUndefined == "PydanticUndefined"

\* _type_map in dict order: the name of each parameter type with the type
_type_map ==
    << <<"str", "<class 'str'>">>,
       <<"int", "<class 'int'>">>,
       <<"float", "<class 'float'>">>,
       <<"bool", "<class 'bool'>">>,
       <<"List[str]", "typing.List[str]">>,
       <<"List[int]", "typing.List[int]">>,
       <<"List[float]", "typing.List[float]">>,
       <<"List[bool]", "typing.List[bool]">> >>

\* the name of the first entry of _type_map holding the type
_type_to_string(type) ==
    IF \E k \in DOMAIN _type_map : _type_map[k][2] = type
    THEN _type_map[CHOOSE k \in DOMAIN _type_map :
                      /\ _type_map[k][2] = type
                      /\ \A j \in 1..(k - 1) : _type_map[j][2] # type][1]
    ELSE "ValueError"

\* _type_map[type]
_type_from_string(type) ==
    IF \E k \in DOMAIN _type_map : _type_map[k][1] = type
    THEN _type_map[CHOOSE k \in DOMAIN _type_map : _type_map[k][1] = type][2]
    ELSE "ValueError"

\* _is_valid_parameter_type
_is_valid_parameter_type(type) == \E k \in DOMAIN _type_map : _type_map[k][2] = type

\* AppProcessorInput.get_spec: 'list' only when it is set
AppProcessorInput_get_spec(self) ==
    [name |-> self.name, description |-> self.description]
        @@ (IF self.list THEN [list |-> TRUE] ELSE EmptyDict)

AppProcessorInput_from_spec(spec) ==
    [name |-> spec["name"], description |-> spec["description"],
     list |-> Get(spec, "list", FALSE)]

AppProcessorOutput_get_spec(self) ==
    [name |-> self.name, description |-> self.description]

AppProcessorOutput_from_spec(spec) ==
    [name |-> spec["name"], description |-> spec["description"]]

\* a get_spec that also leaves out a default of None
AppProcessorParameter_get_spec_omit_none(self) ==
    [name |-> self.name, description |-> self.description,
     type |-> _type_to_string(self.type)]
        @@ (IF self.default \notin {PydanticUndefined, None}
            THEN [default |-> self.default] ELSE EmptyDict)
        @@ (IF self.options # None THEN [options |-> self.options] ELSE EmptyDict)
        @@ (IF self.secret THEN [secret |-> TRUE] ELSE EmptyDict)

\* AppProcessorParameter.get_spec: 'default' unless it is PydanticUndefined,
\* 'options' unless None, 'secret' only when it is set
AppProcessorParameter_get_spec(self) ==
    [name |-> self.name, description |-> self.description,
     type |-> _type_to_string(self.type)]
        @@ (IF self.default # PydanticUndefined
            THEN [default |-> self.default] ELSE EmptyDict)
        @@ (IF self.options # None THEN [options |-> self.options] ELSE EmptyDict)
        @@ (IF self.secret THEN [secret |-> TRUE] ELSE EmptyDict)

AppProcessorParameter_from_spec(spec) ==
    [name |-> spec["name"], description |-> spec["description"],
     type |-> _type_from_string(spec["type"]),
     default |-> Get(spec, "default", PydanticUndefined),
     options |-> Get(spec, "options", None),
     secret |-> Get(spec, "secret", FALSE)]

AppProcessorAttribute_get_spec(self) == [name |-> self.name, value |-> self.value]

AppProcessorAttribute_from_spec(spec) == [name |-> spec["name"], value |-> spec["value"]]

AppProcessorTag_get_spec(self) == [tag |-> self.tag]

AppProcessorTag_from_spec(spec) == [tag |-> spec["tag"]]

AppProcessor_get_spec(self) ==
    [name |-> self.name,
     description |-> self.description,
     label |-> self.label,
     inputs |-> [k \in DOMAIN self.inputs |-> AppProcessorInput_get_spec(self.inputs[k])],
     outputs |-> [k \in DOMAIN self.outputs |-> AppProcessorOutput_get_spec(self.outputs[k])],
     parameters |-> [k \in DOMAIN self.parameters |->
                        AppProcessorParameter_get_spec(self.parameters[k])],
     attributes |-> [k \in DOMAIN self.attributes |->
                        AppProcessorAttribute_get_spec(self.attributes[k])],
     tags |-> [k \in DOMAIN self.tags |-> AppProcessorTag_get_spec(self.tags[k])]]

\* AppProcessor.from_spec: the processor class is not given
AppProcessor_from_spec(spec) ==
    [name |-> spec["name"],
     description |-> spec["description"],
     label |-> spec["label"],
     inputs |-> [k \in DOMAIN spec["inputs"] |-> AppProcessorInput_from_spec(spec["inputs"][k])],
     outputs |-> [k \in DOMAIN spec["outputs"] |->
                     AppProcessorOutput_from_spec(spec["outputs"][k])],
     parameters |-> [k \in DOMAIN spec["parameters"] |->
                        AppProcessorParameter_from_spec(spec["parameters"][k])],
     attributes |-> [k \in DOMAIN spec["attributes"] |->
                        AppProcessorAttribute_from_spec(spec["attributes"][k])],
     tags |-> [k \in DOMAIN spec["tags"] |-> AppProcessorTag_from_spec(spec["tags"][k])],
     processor_class |-> None]

\* `not value` of an optional string
Falsy(value) == value \in {None, ""}

\* App.__init__ raises DendroAppException without an image and an executable
App_init_raises(app_image, app_executable) == Falsy(app_image) /\ Falsy(app_executable)

\* whether App.get_spec raises: _type_to_string on a type outside _type_map
App_get_spec_raises(self) ==
    \E k \in DOMAIN self.processors : \E j \in DOMAIN self.processors[k].parameters :
        ~_is_valid_parameter_type(self.processors[k].parameters[j].type)

\* App.get_spec: the executable is emitted twice
App_get_spec(self) ==
    [name |-> self.name,
     description |-> self.description,
     appImage |-> self.app_image,
     appExecutable |-> self.app_executable,
     executable |-> self.app_executable,
     processors |-> [k \in DOMAIN self.processors |-> AppProcessor_get_spec(self.processors[k])]]

\* App.from_spec
App_from_spec(spec) ==
    [name |-> spec["name"],
     description |-> spec["description"],
     app_image |-> Get(spec, "appImage", None),
     app_executable |-> Get(spec, "appExecutable", None),
     processors |-> [k \in DOMAIN spec["processors"] |->
                        AppProcessor_from_spec(spec["processors"][k])]]

\* whether App.from_spec raises: an unknown type name, or the constructor
App_from_spec_raises(spec) ==
    \/ App_init_raises(Get(spec, "appImage", None), Get(spec, "appExecutable", None))
    \/ \E k \in DOMAIN spec["processors"] : \E j \in DOMAIN spec["processors"][k]["parameters"] :
          _type_from_string(spec["processors"][k]["parameters"][j]["type"]) = "ValueError"


\* the inputs, the parameters, the outputs, the attributes and the tags the
\* Apps under conversion are built from
SdkInputs == [name : {"in"}, description : {"an input"}, list : BOOLEAN]

SdkParameters ==
    [name : {"par"}, description : {"a parameter"},
     type : {"<class 'bool'>", "typing.List[float]"},
     default : {PydanticUndefined, None, "1.5"},
     options : {None, "['a', 'b']"},
     secret : BOOLEAN]

SdkOutput == [name |-> "out", description |-> "an output"]

SdkAttribute == [name |-> "wip", value |-> "true"]

SdkTag == [tag |-> "spike_sorting"]

\* the processors of the Apps under conversion: as many outputs, attributes
\* and tags as `extras`
SdkProcessors ==
    {[name |-> "proc", description |-> "a processor", label |-> "Proc",
      inputs |-> inputs, outputs |-> [k \in 1..extras |-> SdkOutput],
      parameters |-> parameters,
      attributes |-> [k \in 1..extras |-> SdkAttribute],
      tags |-> [k \in 1..extras |-> SdkTag],
      processor_class |-> "ProcessorClass"] :
        inputs \in SeqsUpTo(SdkInputs, MaxSdkItems),
        parameters \in SeqsUpTo(SdkParameters, MaxSdkItems),
        extras \in {0, 1}}

\* the Apps the constructor accepts
SdkApps ==
    {app \in [name : {"app"}, description : {"an app"},
              app_image : {None, "", "image"},
              app_executable : {None, "", "/app/main"},
              processors : SeqsUpTo(SdkProcessors, 1)] :
        ~App_init_raises(app.app_image, app.app_executable)}

\* the state of the Daemon while something else is looked at
DaemonIdle ==
    /\ NotConstructed
    /\ pubsub_subscription = "mock-subscribe-key"
    /\ env = FullEnv
    /\ compute_resource_apps = <<>>

daemonVars ==
    <<env, startup_requests, pc, compute_resource_apps, apps, slurm_job_handlers_by_processor,
      slurm_handler_jobs, attempted_to_start_job_ids, pubsub_client, db, messages, clock,
      timer_handle_jobs, iterated, passed_over, overall_timer, timeout, launchCount, raisedJobs,
      statusUpdates, lastTick, lastIter>>

InitSdk ==
    /\ DaemonIdle
    /\ config_file = NoConfigFile
    /\ fs = EmptyDict
    /\ janitor = NoJanitor
    /\ \E a \in SdkApps : sdk = [pc |-> "app", a |-> a]

\* s = a.get_spec()
GetSpec ==
    /\ sdk.pc = "app"
    /\ sdk' = IF App_get_spec_raises(sdk.a) THEN [pc |-> "raised"]
              ELSE [pc |-> "spec", a |-> sdk.a, s |-> App_get_spec(sdk.a)]
    /\ UNCHANGED <<daemonVars, pubsub_subscription, config_file, fs, janitor>>

\* b = App.from_spec(s)
FromSpec ==
    /\ sdk.pc = "spec"
    /\ sdk' = IF App_from_spec_raises(sdk.s) THEN [pc |-> "raised"]
              ELSE [pc |-> "parsed", a |-> sdk.a, s |-> sdk.s, b |-> App_from_spec(sdk.s)]
    /\ UNCHANGED <<daemonVars, pubsub_subscription, config_file, fs, janitor>>

\* s2 = b.get_spec()
GetSpecOfParsed ==
    /\ sdk.pc = "parsed"
    /\ sdk' = IF App_get_spec_raises(sdk.b) THEN [pc |-> "raised"]
              ELSE [pc |-> "respec", a |-> sdk.a, s |-> sdk.s, b |-> sdk.b,
                    s2 |-> App_get_spec(sdk.b)]
    /\ UNCHANGED <<daemonVars, pubsub_subscription, config_file, fs, janitor>>

NextSdk == GetSpec \/ FromSpec \/ GetSpecOfParsed

SpecSdk == InitSdk /\ [][NextSdk]_vars

\* the fields of an App that its spec carries: all but the processor classes
SpecFields(app) ==
    [app EXCEPT !.processors =
        [k \in DOMAIN app.processors |-> [app.processors[k] EXCEPT !.processor_class = None]]]

\* C22: the spec conversion is round-trip stable: the App parsed from the spec
\* of an App has the spec fields of that App, its spec is the spec it was
\* parsed from, no conversion raises, and the spec has a parameter's 'default'
\* only when the parameter has one, its 'options' only when they are not None,
\* its 'secret' only when it is set, and an input's 'list' only when it is set
C22_SpecRoundTrip ==
    /\ sdk.pc # "raised"
    /\ sdk.pc \in {"parsed", "respec"} => SpecFields(sdk.b) = SpecFields(sdk.a)
    /\ sdk.pc = "respec" => sdk.s2 = sdk.s
    /\ sdk.pc \in {"spec", "parsed", "respec"} =>
          \A k \in DOMAIN sdk.a.processors :
             /\ \A j \in DOMAIN sdk.a.processors[k].parameters :
                   LET parameter == sdk.a.processors[k].parameters[j]
                       spec == sdk.s["processors"][k]["parameters"][j]
                   IN /\ "default" \in DOMAIN spec <=> parameter.default # PydanticUndefined
                      /\ "options" \in DOMAIN spec <=> parameter.options # None
                      /\ "secret" \in DOMAIN spec <=> parameter.secret
             /\ \A j \in DOMAIN sdk.a.processors[k].inputs :
                   "list" \in DOMAIN sdk.s["processors"][k]["inputs"][j]
                      <=> sdk.a.processors[k].inputs[j].list

\* a round trip of an App with an input that is no list and a parameter
\* without default, options and secret flag
C22_Witness ==
    /\ sdk.pc = "respec"
    /\ \E k \in DOMAIN sdk.a.processors :
          /\ \E j \in DOMAIN sdk.a.processors[k].inputs : ~sdk.a.processors[k].inputs[j].list
          /\ \E j \in DOMAIN sdk.a.processors[k].parameters :
                /\ sdk.a.processors[k].parameters[j].default = PydanticUndefined
                /\ sdk.a.processors[k].parameters[j].options = None
                /\ ~sdk.a.processors[k].parameters[j].secret
                /\ DOMAIN sdk.s2["processors"][k]["parameters"][j] = {"name", "description", "type"}

----------------------------------------------------------------------------
(* The janitor: _cleanup_old_job_working_directories, run in a process of its
   own on <cwd>/jobs.  Paths are sequences of names below the working
   directory, times are seconds *)

\* polls of the janitor
MaxPolls == 3

\* the age above which a working directory is removed
JobDirTtl == 24 * 60 * 60

\* the sleep between two polls
PollInterval == 60

\* os.getcwd() + '/jobs'
JobsDir == <<"jobs">>

\* the names of the entries of the jobs directory
JobDirNames == {"job1", "job2", "job3"}

IsPrefix(dir, path) == Len(path) >= Len(dir) /\ SubSeq(path, 1, Len(dir)) = dir

\* Path.exists
exists(the_fs, path) == path \in DOMAIN the_fs

\* Path.iterdir: the direct children
iterdir(the_fs, dir) == {path \in DOMAIN the_fs : Len(path) = Len(dir) + 1 /\ IsPrefix(dir, path)}

\* shutil.rmtree of each of the directories: they go with all they hold
rmtree(the_fs, dirs) ==
    [path \in {q \in DOMAIN the_fs : ~\E dir \in dirs : IsPrefix(dir, q)} |-> the_fs[path]]

\* an age test that takes a directory of exactly the age
is_old_or_equal(elapsed) == elapsed >= JobDirTtl

\* elapsed > 24 * 60 * 60
is_old(elapsed) == elapsed > JobDirTtl

\* the entries of the jobs directory a poll at `now` removes
OldJobDirs(the_fs, now) ==
    {job_dir \in iterdir(the_fs, JobsDir) :
        the_fs[job_dir].is_dir /\ is_old(now - the_fs[job_dir].st_mtime)}

\* no poll in the last step
EmptyPoll == [done |-> FALSE, before |-> EmptyDict, now |-> 0, removed |-> {}, slept |-> 0]

\* what can raise in a poll
JanitorFaults == {"none", "iterdir", "stat", "rmtree"}

\* one pass of the `while True` loop.  Without the jobs directory the pass
\* ends at `continue`, before the sleep.  Nothing is caught: an exception
\* ends the process, after the directories removed before it
JanitorPollWith(fault) ==
    /\ janitor.pc = "polling"
    /\ janitor.polls < MaxPolls
    /\ IF ~exists(fs, JobsDir)
       THEN /\ fault = "none"
            /\ fs' = fs
            /\ janitor' = [janitor EXCEPT !.polls = @ + 1,
                              !.last = [done |-> TRUE, before |-> fs, now |-> janitor.time,
                                        removed |-> {}, slept |-> 0]]
       ELSE \E old \in {OldJobDirs(fs, janitor.time)} :
            \E removed \in IF fault = "none" THEN {old}
                           ELSE IF fault = "iterdir" THEN {{}}
                           ELSE SUBSET old :
               /\ fault = "stat" => iterdir(fs, JobsDir) \ removed # {}
               /\ fault = "rmtree" => old \ removed # {}
               /\ fs' = rmtree(fs, removed)
               /\ janitor' =
                     [pc |-> IF fault = "none" THEN "polling" ELSE "dead",
                      time |-> IF fault = "none" THEN janitor.time + PollInterval
                               ELSE janitor.time,
                      polls |-> janitor.polls + 1,
                      last |-> [done |-> TRUE, before |-> fs, now |-> janitor.time,
                                removed |-> removed,
                                slept |-> IF fault = "none" THEN PollInterval ELSE 0]]
    /\ UNCHANGED <<daemonVars, pubsub_subscription, config_file, sdk>>

JanitorPoll == JanitorPollWith("none")

FaultyJanitorPoll == \E fault \in JanitorFaults \ {"none"} : JanitorPollWith(fault)

\* a job is launched: its working directory is made, and the jobs directory
\* with it
MakeJobDir ==
    /\ janitor.pc = "polling"
    /\ \E name \in JobDirNames :
          /\ ~exists(fs, JobsDir \o <<name>>)
          /\ fs' = [path \in DOMAIN fs \cup {JobsDir, JobsDir \o <<name>>} |->
                       IF path \in DOMAIN fs THEN fs[path]
                       ELSE [is_dir |-> TRUE, st_mtime |-> janitor.time]]
    /\ janitor' = [janitor EXCEPT !.last = EmptyPoll]
    /\ UNCHANGED <<daemonVars, pubsub_subscription, config_file, sdk>>

\* a job writes into its working directory
TouchJobDir ==
    /\ janitor.pc = "polling"
    /\ \E job_dir \in iterdir(fs, JobsDir) :
          /\ fs[job_dir].is_dir
          /\ fs[job_dir].st_mtime # janitor.time
          /\ fs' = [fs EXCEPT ![job_dir].st_mtime = janitor.time]
    /\ janitor' = [janitor EXCEPT !.last = EmptyPoll]
    /\ UNCHANGED <<daemonVars, pubsub_subscription, config_file, sdk>>

\* a working directory with entries made at the given times: under jobs, a
\* file or a directory of each given name, the directories with a directory
\* "tmp" inside if `nested`; beside jobs, a directory "scratch" holding an
\* old directory
FsOf(jobs_exists, kinds, mtimes, nested) ==
    LET job_dirs == IF jobs_exists THEN {name \in JobDirNames : kinds[name] # "absent"} ELSE {}
        paths == {<<"scratch">>, <<"scratch", "old">>}
                    \cup (IF jobs_exists THEN {JobsDir} ELSE {})
                    \cup {JobsDir \o <<name>> : name \in job_dirs}
                    \cup {JobsDir \o <<name, "tmp">> :
                             name \in {n \in job_dirs : nested /\ kinds[n] = "dir"}}
    IN [path \in paths |->
           IF Len(path) = 2 /\ IsPrefix(JobsDir, path)
           THEN [is_dir |-> kinds[path[2]] = "dir", st_mtime |-> mtimes[path[2]]]
           ELSE [is_dir |-> TRUE, st_mtime |-> 0]]

\* the janitor starts when the oldest entries are of exactly the age
InitJanitor ==
    /\ DaemonIdle
    /\ config_file = NoConfigFile
    /\ sdk = NoSdk
    /\ janitor = [pc |-> "polling", time |-> JobDirTtl, polls |-> 0, last |-> EmptyPoll]
    /\ \E jobs_exists \in BOOLEAN, nested \in BOOLEAN,
          kinds \in [JobDirNames -> {"absent", "file", "dir"}],
          mtimes \in [JobDirNames -> {0, PollInterval}] :
          fs = FsOf(jobs_exists, kinds, mtimes, nested)

NextJanitor == JanitorPoll \/ MakeJobDir \/ TouchJobDir

SpecJanitor == InitJanitor /\ [][NextJanitor]_vars

NextJanitorFaults == JanitorPoll \/ FaultyJanitorPoll \/ MakeJobDir \/ TouchJobDir

SpecJanitorFaults == InitJanitor /\ [][NextJanitorFaults]_vars

\* C23: a poll removes every direct child directory of <cwd>/jobs whose mtime
\* is more than 24 hours before the poll, with all it holds, and nothing else:
\* no directory of at most that age, no file, nothing outside the jobs
\* directory; what stays is unchanged
C23_JanitorRemovesOldJobDirsOnly ==
    (janitor.pc = "polling" /\ janitor.last.done) =>
        LET before == janitor.last.before
        IN /\ \A path \in DOMAIN before :
                 path \notin DOMAIN fs <=>
                     /\ Len(path) >= 2
                     /\ path[1] = "jobs"
                     /\ before[<<"jobs", path[2]>>].is_dir
                     /\ janitor.last.now - before[<<"jobs", path[2]>>].st_mtime > 24 * 60 * 60
           /\ \A path \in DOMAIN fs : path \in DOMAIN before /\ fs[path] = before[path]

\* a poll that removed a directory with what it held and kept a directory of
\* exactly 24 hours, an old file and an old directory outside jobs
C23_Witness ==
    /\ janitor.pc = "polling"
    /\ janitor.last.done
    /\ \E path \in DOMAIN janitor.last.before : Len(path) = 3 /\ path \notin DOMAIN fs
    /\ \E path \in iterdir(fs, JobsDir) :
          fs[path].is_dir /\ janitor.last.now - fs[path].st_mtime = 24 * 60 * 60
    /\ \E path \in iterdir(fs, JobsDir) :
          ~fs[path].is_dir /\ janitor.last.now - fs[path].st_mtime > 24 * 60 * 60
    /\ <<"scratch", "old">> \in DOMAIN fs

\* C24: the janitor survives its own exceptions: no poll ends the process,
\* and every poll is followed by the sleep of 60 seconds, also a poll that
\* finds no jobs directory
C24_JanitorSurvives ==
    /\ janitor.pc # "dead"
    /\ (janitor.pc = "polling" /\ janitor.last.done) => janitor.last.slept = 60

----------------------------------------------------------------------------
(* The bootstrap of start_compute_resource: the variables of the file
   <dir>/.dendro-compute-resource-node.yaml are copied into the environment
   before the Daemon is constructed *)

\* register_compute_resource.env_var_keys: the variables the registration
\* step writes
env_var_keys == {"COMPUTE_RESOURCE_ID", "COMPUTE_RESOURCE_PRIVATE_KEY", "NODE_ID", "NODE_NAME"}

\* a variable outside env_var_keys
OtherEnvKey == "CONTAINER_METHOD"

\* every key of the file is copied
KeysToCopyAll(the_config) == DOMAIN the_config

\* the keys k of env_var_keys with `k in the_config`
KeysToCopy(the_config) == {k \in env_var_keys : k \in DOMAIN the_config}

\* lines 296-304: the_config is the mapping of the file, {} without a file;
\* os.environ[k] = the_config[k] for the keys to copy
Bootstrap ==
    /\ pc = "start"
    /\ \E the_config \in {IF config_file.exists THEN config_file.content ELSE EmptyDict} :
          env' = [k \in DOMAIN env |->
                     IF k \in KeysToCopy(the_config) THEN the_config[k] ELSE env[k]]
    /\ pc' = "boot"
    /\ UNCHANGED <<iterated, passed_over>>
    /\ UNCHANGED <<startup_requests, compute_resource_apps, apps,
                   slurm_job_handlers_by_processor, slurm_handler_jobs,
                   attempted_to_start_job_ids, pubsub_client, db, messages, clock,
                   timer_handle_jobs, overall_timer, timeout, launchCount, raisedJobs,
                   statusUpdates, lastTick, lastIter, sideVars>>

\* start_compute_resource is called: any environment, and no file or a file
\* mapping any keys to strings
InitConfig ==
    /\ pc = "start"
    /\ NoDaemon
    /\ pubsub_subscription \in SubscribeKeys
    /\ compute_resource_apps = <<>>
    /\ env \in [env_var_keys \cup {OtherEnvKey} -> {None, "set"}]
    /\ \/ config_file = NoConfigFile
       \/ \E keys \in SUBSET (env_var_keys \cup {OtherEnvKey}) :
             config_file = [exists |-> TRUE, content |-> [k \in keys |-> "from file"]]
    /\ sdk = NoSdk
    /\ fs = EmptyDict
    /\ janitor = NoJanitor

NextConfig == Bootstrap \/ DaemonInit

SpecConfig == InitConfig /\ [][NextConfig]_vars

\* C25: the bootstrap sets exactly the variables of env_var_keys that are keys
\* of the file, each to the file's value; every other variable keeps its
\* value: a key of the file outside env_var_keys sets nothing, a variable of
\* env_var_keys absent from the file is left alone, and without a file the
\* environment is unchanged and the startup goes on
C25_BootstrapCopiesWhitelistedKeys ==
    [][pc = "start" =>
          /\ pc' = "boot"
          /\ \A k \in DOMAIN env :
                env'[k] = IF /\ config_file.exists
                             /\ k \in {"COMPUTE_RESOURCE_ID", "COMPUTE_RESOURCE_PRIVATE_KEY",
                                       "NODE_ID", "NODE_NAME"}
                             /\ k \in DOMAIN config_file.content
                          THEN config_file.content[k]
                          ELSE env[k]]_vars

\* the bootstrap has run on a file with a key of env_var_keys, without another
\* one that the environment has, and with a key outside env_var_keys
C25_Witness ==
    /\ pc = "boot"
    /\ config_file.exists
    /\ "COMPUTE_RESOURCE_ID" \in DOMAIN config_file.content
    /\ env["COMPUTE_RESOURCE_ID"] = "from file"
    /\ "NODE_NAME" \notin DOMAIN config_file.content
    /\ env["NODE_NAME"] = "set"
    /\ OtherEnvKey \in DOMAIN config_file.content
    /\ env[OtherEnvKey] = None

----------------------------------------------------------------------------
(* The daemon from its construction on: Daemon() on the standard apps, then
   Daemon.start *)

InitStart ==
    /\ NotConstructed
    /\ SideIdle
    /\ pubsub_subscription \in SubscribeKeys
    /\ env = FullEnv
    /\ compute_resource_apps = StandardApps

NextStart ==
    DaemonInit \/ LoopIteration \/ TimePasses \/ Publish \/ SubmitLoopJob \/ JobStatusChange

SpecStart == InitStart /\ [][NextStart]_vars

\* C26: with the subscribe key 'mock-subscribe-key' the daemon has no pub/sub
\* client, an iteration of its loop drains no message, and an iteration ticks
\* only when more than the interval has passed since the last tick
C26_MockSubscriptionNoClient ==
    (pubsub_subscription = "mock-subscribe-key" /\ pc \in {"running", "returned"}) =>
        /\ pubsub_client = None
        /\ lastIter.done =>
              /\ lastIter.drained = <<>>
              /\ lastIter.handled => lastIter.elapsed_handle_jobs > HandleJobsInterval

\* an iteration of the daemon constructed with the mock key has ticked, with a
\* job to fetch
C26_Witness ==
    /\ pubsub_subscription = "mock-subscribe-key"
    /\ startup_requests = RequestLog(Len(StartupRequests), 0)
    /\ lastIter.done
    /\ lastIter.handled
    /\ lastTick.fetched # <<>>

----------------------------------------------------------------------------
(* The attempted-start set over the life of the daemon *)

\* C27: the attempted-start set only grows: no step removes a jobId from it;
\* it holds exactly the jobIds for which _start_job was entered: those a
\* launcher was invoked for or the app was not found for, and after a tick
\* those it held before together with those of the tick's _start_job calls
C27_AttemptedSetOnlyGrows ==
    /\ [](attempted_to_start_job_ids =
             {i \in DOMAIN launchCount : launchCount[i] > 0} \cup {u.jobId : u \in statusUpdates})
    /\ [](lastTick.done =>
             attempted_to_start_job_ids =
                lastTick.attempted_before \cup Range(lastTick.start_calls))
    /\ [][attempted_to_start_job_ids \subseteq attempted_to_start_job_ids']_vars

\* a tick entered _start_job for a job while the set holds a job that has left
\* the unfinished list
C27_Witness ==
    /\ lastTick.done
    /\ \E i \in Range(lastTick.start_calls) : i \notin lastTick.attempted_before
    /\ \E i \in attempted_to_start_job_ids :
          /\ db[i].status \notin UnfinishedStatuses
          /\ \A k \in DOMAIN lastTick.fetched : lastTick.fetched[k].jobId # i

----------------------------------------------------------------------------
(* The handlers in the loop *)

----------------------------------------------------------------------------
(* The dispatcher of a daemon built from any list of app records *)

\* jobs submitted under SpecLoadRun
MaxLoadJobs == 1

InitLoadRun ==
    /\ NotConstructed
    /\ SideIdle
    /\ pubsub_subscription = "mock-subscribe-key"
    /\ env = FullEnv
    /\ compute_resource_apps \in SeqsUpTo(ComputeResourceAppRecords, MaxBootApps)

SubmitLoadJob == SubmitJob(LoadProcessorNames, {1}, MaxLoadJobs)

NextLoadRun == DaemonInit \/ SubmitLoadJob \/ HandleJobs

SpecLoadRun == InitLoadRun /\ [][NextLoadRun]_vars

----------------------------------------------------------------------------
(* The order of an iteration *)

C31_FirstIterationTicks ==
    [][(~iterated /\ iterated') =>
          /\ lastIter'.done
          /\ lastIter'.elapsed_handle_jobs = clock
          /\ lastIter'.by_timer
          /\ lastIter'.handled
          /\ lastTick'.done
          /\ lastTick'.fetched = UnfinishedJobs(db)
          /\ timer_handle_jobs' = clock]_vars

\* the first iteration drained no message and ticked on a pending job
C31_Witness ==
    /\ iterated
    /\ lastIter.done
    /\ lastIter.elapsed_handle_jobs = clock - lastIter.tick_time
    /\ lastIter.drained = <<>>
    /\ lastIter.handled
    /\ lastTick.done
    /\ lastTick.fetched # <<>>

\* ---------------------------------------------------------------------
\* Daemon.start with a pub/sub client that receives bursts of messages

\* the number of messages the client may hold when an iteration takes them
MaxBurst == 2

PublishBurst == PublishUpTo(MaxBurst)

InitBurst ==
    /\ Constructed
    /\ pubsub_client = "client"
    /\ Subscribed
    /\ timeout = NoTimeout

NextBurst == LoopIteration \/ TimePasses \/ PublishBurst \/ SubmitLoopJob \/ JobStatusChange

SpecBurst == InitBurst /\ [][NextBurst]_vars

\* C32: an iteration of the loop performs at most one tick of the
\* dispatcher, however many trigger messages it took; every tick, caused by a
\* message or by the timer, restarts the timer at the time the tick begins
\* (before the fetch, whatever time the tick takes), an iteration without
\* tick leaves the timer alone, and the next iteration measures the interval
\* from that time
C32_OneTickPerIterationTimerRestarted ==
    /\ [](lastIter.done =>
             /\ Cardinality({k \in DOMAIN lastIter.steps :
                                lastIter.steps[k] = "_handle_jobs"})
                   = (IF lastIter.handled THEN 1 ELSE 0)
             /\ lastIter.handled <=> lastTick.done
             /\ lastIter.handled => timer_handle_jobs = clock - lastIter.tick_time
             /\ ~lastIter.handled =>
                   timer_handle_jobs = clock - lastIter.elapsed_handle_jobs)
    /\ [][lastIter'.done =>
             /\ lastIter'.elapsed_handle_jobs = clock - timer_handle_jobs
             /\ lastIter'.by_timer <=> (clock - timer_handle_jobs > HandleJobsInterval)
             /\ lastIter'.handled =>
                   /\ timer_handle_jobs' = clock
                   /\ clock' = clock + lastIter'.tick_time
                   /\ lastTick'.fetched = UnfinishedJobs(db)]_vars

\* an iteration took two trigger messages within the interval and performed
\* one tick, which took time and fetched a job
C32_Witness ==
    /\ lastIter.done
    /\ Len(lastIter.drained) = 2
    /\ \A k \in DOMAIN lastIter.drained : IsTriggerMessage(lastIter.drained[k])
    /\ ~lastIter.by_timer
    /\ lastIter.handled
    /\ lastIter.tick_time = 1
    /\ lastTick.fetched # <<>>
    /\ timer_handle_jobs = clock - 1

\* the local jobs of the last tick's fetch that are pending and were passed
\* to _start_job by an earlier tick, as jobIds
FetchedPendingAttempted ==
    {lastTick.fetched[k].jobId : k \in FetchedPendingLocal} \cap lastTick.attempted_before

\* C33: a local job that was passed to the launcher and is still fetched
\* pending holds its slot in later ticks: _start_job on it does nothing, and
\* it is among the first (cap - busy) pending jobs, or else the tick starts
\* no job (no other pending job is started in its slot)
C33_AttemptedPendingJobKeepsSlot ==
    lastTick.done =>
        \A i \in FetchedPendingAttempted :
            /\ i \notin Range(lastTick.launched)
            /\ \/ i \in Range(lastTick.local_jobs_to_start)
               \/ lastTick.launched = <<>>

\* C34: the launcher is invoked for a local job only in a tick whose fetch
\* returned the job with status pending; a local job that is not pending and
\* was never passed to _start_job (first seen queued, starting or running) is
\* not passed to it by any tick, and its launcher is never invoked
C34_LocalLaunchOnlyWhenFetchedPending ==
    /\ [](lastTick.done =>
             \A k \in DOMAIN lastTick.fetched :
                 (/\ _is_local_job(lastTick.fetched[k])
                  /\ \/ lastTick.fetched[k].jobId \in Range(lastTick.start_calls)
                     \/ lastTick.fetched[k].jobId \in Range(lastTick.launched))
                    => lastTick.fetched[k].status = "pending")
    /\ [](\A i \in DOMAIN db :
             (launchCount[i] > 0 /\ _is_local_job(db[i])) => i \in attempted_to_start_job_ids)
    /\ [][\A i \in DOMAIN db :
             (/\ _is_local_job(db[i])
              /\ db[i].status # "pending"
              /\ i \notin attempted_to_start_job_ids)
                => /\ launchCount'[i] = launchCount[i]
                   /\ i \notin attempted_to_start_job_ids'
                   /\ db'[i].status # "pending"]_vars

\* a tick fetched a local job that is running and was never passed to
\* _start_job, left it alone, and launched a pending one
C34_Witness ==
    /\ lastTick.done
    /\ lastTick.launched # <<>>
    /\ \E k \in FetchedBusyLocal :
          /\ lastTick.fetched[k].jobId \notin attempted_to_start_job_ids
          /\ launchCount[lastTick.fetched[k].jobId] = 0

\* C35: for every jobId, _start_job issues at most one status update in the
\* life of the daemon, and the update is 'failed': every update of a tick is
\* 'failed', for a jobId that the same tick added to the attempted-start set
\* (which never shrinks), and a tick issues no two updates for one jobId
C35_OneFailedUpdatePerJob ==
    /\ [](\A u \in statusUpdates :
             /\ u.status = "failed"
             /\ u.jobId \in attempted_to_start_job_ids
             /\ \A v \in statusUpdates : v.jobId = u.jobId => v = u)
    /\ [][/\ attempted_to_start_job_ids \subseteq attempted_to_start_job_ids'
          /\ statusUpdates' = statusUpdates \cup Range(lastTick'.updates)
          /\ \A k \in DOMAIN lastTick'.updates :
                /\ lastTick'.updates[k].status = "failed"
                /\ lastTick'.updates[k].jobId \notin attempted_to_start_job_ids
                /\ lastTick'.updates[k].jobId \in attempted_to_start_job_ids'
                /\ \A m \in DOMAIN lastTick'.updates :
                      lastTick'.updates[m].jobId = lastTick'.updates[k].jobId => m = k]_vars

\* a job whose start had issued a 'failed' update is still in the unfinished
\* list; a later tick passed it to _start_job again and issued no update
C35_Witness ==
    /\ lastTick.done
    /\ lastTick.updates = <<>>
    /\ \E u \in statusUpdates :
          /\ u.jobId \in Range(lastTick.start_calls)
          /\ u.jobId \in Range(lastTick.skipped)
          /\ u.jobId \in lastTick.attempted_before

\* ---------------------------------------------------------------------
\* Daemon._start_job called on its own, for any job of the control plane

\* one call of Daemon._start_job(job)
StartJobCall ==
    /\ pc = "running"
    /\ \E i \in DOMAIN db :
       \E raises \in SUBSET {i} :
       \E st \in {_start_job(TickStart, db[i], raises)} :
       \E applied \in SUBSET {st.updates[k].jobId : k \in DOMAIN st.updates} :
          /\ attempted_to_start_job_ids' = st.attempted
          /\ launchCount' = [k \in DOMAIN launchCount |->
                                launchCount[k] + Cardinality({m \in DOMAIN st.launched : st.launched[m] = k})]
          /\ raisedJobs' = raisedJobs \cup st.raised
          /\ statusUpdates' = statusUpdates \cup Range(st.updates)
          /\ db' = ControlPlaneApply(db, applied)
          /\ lastTick' = [EmptyTick EXCEPT !.done = TRUE,
                                           !.start_calls = <<i>>,
                                           !.launched = st.launched,
                                           !.raised = st.raised,
                                           !.skipped = st.skipped,
                                           !.updates = st.updates,
                                           !.attempted_before = attempted_to_start_job_ids]
    /\ lastIter' = EmptyIter
    /\ UNCHANGED <<iterated, passed_over>>
    /\ UNCHANGED sideVars
    /\ UNCHANGED <<env, startup_requests, pc, compute_resource_apps, apps,
                   slurm_job_handlers_by_processor, slurm_handler_jobs,
                   pubsub_client, messages, clock, timer_handle_jobs, overall_timer,
                   timeout>>

NextStartJob == SubmitAnyJob \/ JobStatusChange \/ StartJobCall

SpecStartJob == Init /\ [][NextStartJob]_vars

\* the jobs whose processorName belongs to no loaded app, as jobIds
UnknownProcessorJobs ==
    {i \in DOMAIN db : _find_app_with_processor(apps, db[i].processorName) = 0}

\* C36: _start_job entered for a job whose processorName belongs to no loaded
\* app adds the jobId to the attempted-start set, issues the one status
\* update 'failed' with 'Could not find app' and does not invoke the
\* launcher; entered again for the same job it does nothing
C36_StartOfUnknownProcessorJob ==
    /\ [](\A i \in UnknownProcessorJobs :
             /\ launchCount[i] = 0
             /\ i \notin raisedJobs
             /\ \A u \in statusUpdates :
                   u.jobId = i => u = StatusRequest(db[i], "failed", "Could not find app"))
    /\ [][\A i \in UnknownProcessorJobs :
             (lastTick'.done /\ lastTick'.start_calls = <<i>>) =>
                 /\ lastTick'.launched = <<>>
                 /\ launchCount' = launchCount
                 /\ attempted_to_start_job_ids' = attempted_to_start_job_ids \cup {i}
                 /\ IF i \in attempted_to_start_job_ids
                    THEN /\ lastTick'.updates = <<>>
                         /\ lastTick'.skipped = <<i>>
                         /\ statusUpdates' = statusUpdates
                         /\ db' = db
                    ELSE /\ lastTick'.updates =
                               <<StatusRequest(db[i], "failed", "Could not find app")>>
                         /\ lastTick'.skipped = <<>>
                         /\ statusUpdates' = statusUpdates \cup Range(lastTick'.updates)]_vars

\* _start_job was entered a second time for a job of no loaded app, whose
\* 'Could not find app' update had been issued, and did nothing
C36_Witness ==
    /\ lastTick.done
    /\ \E i \in UnknownProcessorJobs :
          /\ lastTick.start_calls = <<i>>
          /\ lastTick.skipped = <<i>>
          /\ lastTick.updates = <<>>
          /\ i \in lastTick.attempted_before
          /\ db[i].status = "pending"
          /\ StatusRequest(db[i], "failed", "Could not find app") \in statusUpdates

\* C37: the loader returns one App per app record, in the order of the
\* records, each the app of its record's spec with that record's placement:
\* the AWS Batch queue and definition when awsBatch is set, the slurm
\* options when slurm is set, what is not set being None (all three for a
\* local app)
C37_LoaderKeepsOrderAndPlacement ==
    pc = "running" =>
        /\ Len(apps) = Len(compute_resource_apps)
        /\ \A i \in DOMAIN compute_resource_apps :
              /\ apps[i].processors = compute_resource_apps[i].processors
              /\ apps[i].aws_batch_job_queue =
                    (IF compute_resource_apps[i].awsBatch THEN "jobQueue" ELSE None)
              /\ apps[i].aws_batch_job_definition =
                    (IF compute_resource_apps[i].awsBatch THEN "jobDefinition" ELSE None)
              /\ apps[i].slurm_opts =
                    (IF compute_resource_apps[i].slurm THEN "slurmOpts" ELSE None)
              /\ (~compute_resource_apps[i].awsBatch /\ ~compute_resource_apps[i].slurm) =>
                    /\ apps[i].aws_batch_job_queue = None
                    /\ apps[i].aws_batch_job_definition = None
                    /\ apps[i].slurm_opts = None

\* a daemon was constructed from an AWS Batch record followed by a local
\* record of other processors
C37_Witness ==
    /\ pc = "running"
    /\ Len(apps) = 2
    /\ compute_resource_apps[1].awsBatch
    /\ ~compute_resource_apps[2].awsBatch /\ ~compute_resource_apps[2].slurm
    /\ apps[1].processors # apps[2].processors
    /\ apps[1].aws_batch_job_definition = "jobDefinition"
    /\ apps[2].aws_batch_job_queue = None

\* C38: every SLURM handler was constructed with the slurm options of the
\* app that the dispatcher resolves the handler's processor name to, and
\* every job a tick forwards to the handler is a job classified slurm through
\* that app
C38_HandlerOfResolvedApp ==
    pc = "running" =>
        \A p \in DOMAIN slurm_job_handlers_by_processor :
            /\ slurm_job_handlers_by_processor[p] = _find_app_with_processor(apps, p)
            /\ apps[_find_app_with_processor(apps, p)].slurm_opts # None
            /\ lastTick.done =>
                  \A k \in DOMAIN lastTick.slurm_added[p] :
                      /\ db[lastTick.slurm_added[p][k]].processorName = p
                      /\ _is_slurm_job(db[lastTick.slurm_added[p][k]])

\* ---------------------------------------------------------------------
\* The dispatcher of local jobs, with ticks that keep occurring and launched
\* jobs that make progress

\* the local jobs of the fair dispatcher
MaxFairJobs == 3

\* the jobs arrive in the order of their creation (one timestamp: the stable
\* sort keeps the order of the fetch)
SubmitFairJob == SubmitJob({LocalProcessor}, {1}, MaxFairJobs)

\* job i, which this daemon passed to the launcher, changes its status
LaunchedJobProgress(i) ==
    /\ JobStatusChange
    /\ i \in DOMAIN db
    /\ launchCount[i] > 0
    /\ db'[i] # db[i]

NextLocalFair == SubmitFairJob \/ JobStatusChange \/ HandleJobs

\* ticks keep occurring and succeed; every job passed to the launcher
\* eventually leaves 'pending' and then the unfinished list
SpecLocalFair ==
    /\ Init
    /\ [][NextLocalFair]_vars
    /\ WF_vars(HandleJobs)
    /\ \A i \in 1..MaxFairJobs : WF_vars(LaunchedJobProgress(i))

\* C39 as stated: when ticks keep occurring, every fetch succeeds and every
\* local job passed to the launcher eventually leaves 'pending' and later the
\* unfinished list, every pending local job that stays pending in the
\* unfinished list is eventually passed to the launcher
C39_PendingLocalJobEventuallyLaunched ==
    \A i \in 1..MaxFairJobs :
        (i \in DOMAIN db /\ db[i].status = "pending")
            ~> (i \in DOMAIN db /\ (launchCount[i] > 0 \/ db[i].status # "pending"))

\* job j is a busy local job (unfinished and not pending) that this daemon
\* never passed to the launcher
BusyNotLaunched(j) ==
    /\ j \in DOMAIN db
    /\ launchCount[j] = 0
    /\ db[j].status \in UnfinishedStatuses \ {"pending"}

\* C39, amended: when moreover every busy local job that this daemon did not
\* launch itself eventually leaves the unfinished list, every pending local
\* job that stays pending in the unfinished list is eventually passed to the
\* launcher
C39_LaunchedOnceBusyJobsLeave ==
    (\A j \in 1..MaxFairJobs : <>[](~BusyNotLaunched(j)))
        => \A i \in 1..MaxFairJobs :
              (i \in DOMAIN db /\ db[i].status = "pending")
                  ~> (i \in DOMAIN db /\ launchCount[i] > 0)
                        \/ (i \in DOMAIN db /\ db[i].status # "pending")

\* a pending local job that a tick had passed over, the cap being reached,
\* has been passed to the launcher by a later tick
C39_Witness ==
    /\ lastTick.done
    /\ \E i \in Range(lastTick.launched) :
          /\ i \in passed_over
          /\ i \notin lastTick.attempted_before
          /\ db[i].status = "pending"

====
